---------------------------- MODULE Spec2Model ----------------------------
(***************************************************************************)
(* A model of the lakers EDHOC engine: the CBOR decoder, the fixed-size    *)
(* message buffer and the message parsers of lakers-shared, and the        *)
(* type-stated Initiator and Responder of the lakers crate.                *)
(*                                                                         *)
(* Bytes are integers.  0..255 is a known byte.  A value of 256 or more    *)
(* stands for one byte of the output of a cryptographic primitive: the     *)
(* output's entry in the table orc, the index of the byte in that output,  *)
(* and a known mask XORed onto it (SymByte).  Two such bytes are equal     *)
(* exactly when entry, index and mask agree: primitives are ideal.         *)
(***************************************************************************)
EXTENDS Integers, Sequences, FiniteSets, TLC

VARIABLES
    orc,   \* the crypto backend: the table of primitive calls made so far
    ini,   \* the Initiator role object of the application
    res,   \* the Responder role object of the application
    net,   \* the last message_1, message_2, message_3 put on the wire
    ret    \* what the last call of each role returned

vars == <<orc, ini, res, net, ret>>

----------------------------------------------------------------------------
(* Program constants (lakers-shared).                                      *)

MAX_MESSAGE_SIZE_LEN == 192
ID_CRED_LEN == 4
SUITES_LEN == 9
EDHOC_METHOD == 3
P256_ELEM_LEN == 32
SHA256_DIGEST_LEN == 32
AES_CCM_KEY_LEN == 16
AES_CCM_IV_LEN == 13
AES_CCM_TAG_LEN == 8
MAC_LENGTH_2 == 8
MAC_LENGTH_3 == 8
MAX_KDF_CONTEXT_LEN == 150
MAX_BUFFER_LEN == 256
MAX_KDF_LABEL_LEN == 15
MAX_INFO_LEN == 2 + SHA256_DIGEST_LEN + 1 + MAX_KDF_LABEL_LEN + 1 + MAX_KDF_CONTEXT_LEN + 1
CBOR_BYTE_STRING == 88
CBOR_TEXT_STRING == 120
CBOR_UINT_1BYTE == 24
CBOR_NEG_INT_1BYTE_START == 32
CBOR_NEG_INT_1BYTE_END == 55
CBOR_UINT_1BYTE_START == 0
CBOR_UINT_1BYTE_END == 23
CBOR_MAJOR_TEXT_STRING == 96
CBOR_MAJOR_BYTE_STRING == 64
CBOR_MAJOR_ARRAY == 128
EDHOC_SUPPORTED_SUITES == <<2>>

----------------------------------------------------------------------------
(* Notation.  The({ e : x \in {v} }) is e with x standing for the value v: *)
(* the local `let x = v` of the code.  Nested, the innermost expression    *)
(* is the result and the bindings read from the last line upwards.         *)

The(S) == CHOOSE x \in S : TRUE

----------------------------------------------------------------------------
(* Bytes.                                                                  *)

IsU8(b) == b < 256

SymByte(id, idx, mask) == 256 + ((id * 256 + (idx - 1)) * 256) + mask
SymAtom(b) == (b - 256) \div 256
SymId(b) == SymAtom(b) \div 256
SymIdx(b) == (SymAtom(b) % 256) + 1
SymMask(b) == (b - 256) % 256

RECURSIVE Xor8(_, _)
Xor8(a, b) ==
    IF a = 0 THEN b
    ELSE IF b = 0 THEN a
    ELSE ((a + b) % 2) + 2 * Xor8(a \div 2, b \div 2)

Pow2(k) == CASE k = 0 -> 1 [] k = 1 -> 2 [] k = 2 -> 4 [] k = 3 -> 8
             [] k = 4 -> 16 [] k = 5 -> 32 [] k = 6 -> 64 [] k = 7 -> 128

\* One bit of one byte inverted (bit 0 is the least significant).
FlipBit(b, k) ==
    IF IsU8(b) THEN Xor8(b, Pow2(k))
    ELSE SymByte(SymId(b), SymIdx(b), Xor8(SymMask(b), Pow2(k)))

Zeros(n) == [i \in 1..n |-> 0]

----------------------------------------------------------------------------
(* EdhocMessageBuffer: content[MAX_MESSAGE_SIZE_LEN] and len.              *)

EdhocMessageBuffer_new == [content |-> Zeros(MAX_MESSAGE_SIZE_LEN), len |-> 0]

as_slice(b) == SubSeq(b.content, 1, b.len)

Overwrite(content, at, slice) ==
    [i \in 1..Len(content) |->
        IF i > at /\ i <= at + Len(slice) THEN slice[i - at] ELSE content[i]]

\* fill_with_slice, were it to set len before it tests the length of the slice
fill_with_slice_len_first(b, slice) ==
    IF Len(slice) <= Len(b.content)
    THEN [ok |-> TRUE, err |-> "",
          buf |-> [content |-> Overwrite(b.content, 0, slice), len |-> Len(slice)]]
    ELSE [ok |-> FALSE, err |-> "SliceTooLong", buf |-> [b EXCEPT !.len = Len(b.content)]]

fill_with_slice(b, slice) ==
    IF Len(slice) <= Len(b.content)
    THEN [ok |-> TRUE, err |-> "",
          buf |-> [content |-> Overwrite(b.content, 0, slice), len |-> Len(slice)]]
    ELSE [ok |-> FALSE, err |-> "SliceTooLong", buf |-> b]

new_from_slice(slice) ==
    The({ IF r.ok THEN r
          ELSE [ok |-> FALSE, err |-> "SliceTooLong", buf |-> EdhocMessageBuffer_new]
        : r \in {fill_with_slice(EdhocMessageBuffer_new, slice)} })

push(b, item) ==
    IF b.len < Len(b.content)
    THEN [ok |-> TRUE, err |-> "",
          buf |-> [content |-> [b.content EXCEPT ![b.len + 1] = item], len |-> b.len + 1]]
    ELSE [ok |-> FALSE, err |-> "BufferAlreadyFull", buf |-> b]

\* extend_from_slice, were it to copy the slice to the start of the content
extend_from_slice_at_start(b, slice) ==
    IF b.len + Len(slice) <= Len(b.content)
    THEN [ok |-> TRUE, err |-> "",
          buf |-> [content |-> Overwrite(b.content, 0, slice),
                   len |-> b.len + Len(slice)]]
    ELSE [ok |-> FALSE, err |-> "SliceTooLong", buf |-> b]

extend_from_slice(b, slice) ==
    IF b.len + Len(slice) <= Len(b.content)
    THEN [ok |-> TRUE, err |-> "",
          buf |-> [content |-> Overwrite(b.content, b.len, slice),
                   len |-> b.len + Len(slice)]]
    ELSE [ok |-> FALSE, err |-> "SliceTooLong", buf |-> b]

\* impl TryInto<EdhocMessageBuffer> for &[u8]: its Error type is ()
try_into(slice) ==
    IF Len(slice) <= MAX_MESSAGE_SIZE_LEN
    THEN [ok |-> TRUE, err |-> "",
          buf |-> [content |-> Overwrite(Zeros(MAX_MESSAGE_SIZE_LEN), 0, slice),
                   len |-> Len(slice)]]
    ELSE [ok |-> FALSE, err |-> "()", buf |-> EdhocMessageBuffer_new]

----------------------------------------------------------------------------
(* CBORDecoder: a cursor [buf, pos] over a byte slice.  Every operation    *)
(* returns [ok, sym, val, d]: the Result and the decoder as the call       *)
(* leaves it.  When the byte whose value decides the Result is a byte of a *)
(* primitive's output, the Result has no single value: sym is TRUE and val *)
(* is the index of that byte in buf (the caller then fixes the byte to one *)
(* of its possible values and decodes again, see Resolve).                 *)

CBORDecoder_new(bytes) == [buf |-> bytes, pos |-> 0]

DErr(d) == [ok |-> FALSE, sym |-> FALSE, val |-> 0, d |-> d]
DSym(d, at) == [ok |-> FALSE, sym |-> TRUE, val |-> at, d |-> d]
DOk(v, d) == [ok |-> TRUE, sym |-> FALSE, val |-> v, d |-> d]

type_of(b) == (b \div 32) * 32
info_of(b) == b % 32
is_u8(byte) == byte >= CBOR_UINT_1BYTE_START /\ byte <= CBOR_UINT_1BYTE_END
\* is_i8, were it to take the head byte of the two-byte form as well
is_i8_through_0x38(byte) == byte >= CBOR_NEG_INT_1BYTE_START /\ byte <= CBOR_NEG_INT_1BYTE_END + 1
is_i8(byte) == byte >= CBOR_NEG_INT_1BYTE_START /\ byte <= CBOR_NEG_INT_1BYTE_END

\* read, were it to advance the position before it looks the byte up
read_advancing_first(d) ==
    IF d.pos < Len(d.buf)
    THEN DOk(d.buf[d.pos + 1], [d EXCEPT !.pos = @ + 1])
    ELSE DErr([d EXCEPT !.pos = @ + 1])

read(d) ==
    IF d.pos < Len(d.buf)
    THEN DOk(d.buf[d.pos + 1], [d EXCEPT !.pos = @ + 1])
    ELSE DErr(d)

\* read_slice, were it to return the n bytes and leave pos where it is
read_slice_in_place(d, n) ==
    IF d.pos + n <= Len(d.buf)
    THEN DOk(SubSeq(d.buf, d.pos + 1, d.pos + n), d)
    ELSE DErr(d)

read_slice(d, n) ==
    IF d.pos + n <= Len(d.buf)
    THEN DOk(SubSeq(d.buf, d.pos + 1, d.pos + n), [d EXCEPT !.pos = @ + n])
    ELSE DErr(d)

position(d) == d.pos
finished(d) == d.pos = Len(d.buf)
remaining_buffer(d) == SubSeq(d.buf, d.pos + 1, Len(d.buf))

current(d) ==
    IF d.pos < Len(d.buf) THEN DOk(d.buf[d.pos + 1], d) ELSE DErr(d)

\* a byte read with read(): a decoder Result with sym when it has no value
Known(r) == IF r.ok /\ ~IsU8(r.val) THEN DSym(r.d, r.d.pos) ELSE r

CBORDecoder_u8(d) ==
    The({ IF ~n.ok THEN n
          ELSE IF n.val >= 0 /\ n.val <= 23 THEN n
          ELSE IF n.val = 24 THEN Known(read(n.d))
          ELSE DErr(n.d)
        : n \in {Known(read(d))} })

\* u8 as i8
AsI8(b) == IF b >= 128 THEN b - 256 ELSE b

\* a panic of the decoder (an arithmetic overflow in a build that checks it)
DPanic(d) == [ok |-> FALSE, sym |-> FALSE, val |-> 0, d |-> d, panic |-> TRUE]

\* overflow_checks: the build panics on arithmetic overflow (debug), or wraps
\* (release); read()? - 0x20 is a subtraction of u8
CBORDecoder_i8(d, overflow_checks) ==
    The({ IF ~n.ok THEN n
          ELSE IF n.val >= 0 /\ n.val <= 23 THEN n
          ELSE IF n.val >= 32 /\ n.val <= 55 THEN DOk(-1 - (n.val - 32), n.d)
          ELSE IF n.val = 24
               THEN The({ IF ~m.ok THEN m ELSE DOk(AsI8(m.val), m.d)
                        : m \in {Known(read(n.d))} })
          ELSE IF n.val = 56
               THEN The({ IF ~m.ok THEN m
                          ELSE IF m.val < 32 /\ overflow_checks THEN DPanic(m.d)
                          ELSE DOk(-1 - AsI8((m.val + 256 - 32) % 256), m.d)
                        : m \in {Known(read(n.d))} })
          ELSE DErr(n.d)
        : n \in {Known(read(d))} })

int_raw(d) ==
    The({ IF ~n.ok THEN n
          ELSE IF (n.val >= 0 /\ n.val <= 23) \/ (n.val >= 32 /\ n.val <= 55) THEN n
          ELSE DErr(n.d)
        : n \in {Known(read(d))} })

\* as_usize, were it to read the size from the next byte for every b over
\* 0x17
as_usize_from_next(d, b) ==
    IF b >= 0 /\ b <= 23 THEN DOk(b, d)
    ELSE Known(read(d))

as_usize(d, b) ==
    IF b >= 0 /\ b <= 23 THEN DOk(b, d)
    ELSE IF b = 24 THEN Known(read(d))
    ELSE DErr(d)

\* read_slice(as_usize(info)?)
ReadSized(n) == IF ~n.ok THEN n ELSE read_slice(n.d, n.val)

CBORDecoder_str(d) ==
    The({ IF ~b.ok THEN b
          ELSE IF CBOR_MAJOR_TEXT_STRING # type_of(b.val) \/ info_of(b.val) = 31
               THEN DErr(b.d)
          ELSE ReadSized(as_usize(b.d, info_of(b.val)))
        : b \in {Known(read(d))} })

CBORDecoder_bytes(d) ==
    The({ IF ~b.ok THEN b
          ELSE IF CBOR_MAJOR_BYTE_STRING # type_of(b.val) \/ info_of(b.val) = 31
               THEN DErr(b.d)
          ELSE ReadSized(as_usize(b.d, info_of(b.val)))
        : b \in {Known(read(d))} })

bytes_sized(d, expected_size) ==
    The({ IF ~r.ok THEN r
          ELSE IF Len(r.val) = expected_size THEN r ELSE DErr(r.d)
        : r \in {CBORDecoder_bytes(d)} })

CBORDecoder_array(d) ==
    The({ IF ~b.ok THEN b
          ELSE IF CBOR_MAJOR_ARRAY # type_of(b.val) THEN DErr(b.d)
          ELSE IF info_of(b.val) = 31 THEN DErr(b.d)
          ELSE as_usize(b.d, info_of(b.val))
        : b \in {Known(read(d))} })

----------------------------------------------------------------------------
(* edhoc_parser.  A parser returns [ok, err, ...]; err "Undetermined"      *)
(* (with at, the index of the deciding byte) is the parsers' form of a     *)
(* decoder Result with sym.                                                *)

None == [some |-> FALSE]
Some(v) == [some |-> TRUE, v |-> v]

PErr(e) == [ok |-> FALSE, err |-> e]
PUndet(at) == [ok |-> FALSE, err |-> "Undetermined", at |-> at]
\* impl From<CBORError> for EDHOCError
FromCBORError(r) == IF r.sym THEN PUndet(r.val) ELSE PErr("ParsingError")

\* parse_ead, were it to keep the head byte of a negative label as the label
parse_ead_keeping_head(buffer) ==
    IF Len(buffer) = 0 THEN PErr("ParsingError")
    ELSE LET label == buffer[1]
             tail == SubSeq(buffer, 2, Len(buffer))
         IN  IF ~IsU8(label) THEN PUndet(1)
             ELSE IF ~(is_u8(label) \/ is_i8(label)) THEN PErr("ParsingError")
             ELSE [ok |-> TRUE, err |-> "",
                   ead |-> Some([label |-> label,
                                 is_critical |-> ~is_u8(label),
                                 value |-> IF Len(tail) > 0
                                           THEN Some(fill_with_slice(EdhocMessageBuffer_new, tail).buf)
                                           ELSE None])]

\* parse_ead, were it to set the length of the value to that of the whole
\* buffer it was given
parse_ead_counting_label(buffer) ==
    IF Len(buffer) = 0 THEN PErr("ParsingError")
    ELSE LET label == buffer[1]
             tail == SubSeq(buffer, 2, Len(buffer))
             filled == fill_with_slice(EdhocMessageBuffer_new, tail)
         IN  IF ~IsU8(label) THEN PUndet(1)
             ELSE IF ~(is_u8(label) \/ is_i8(label)) THEN PErr("ParsingError")
             ELSE IF Len(tail) > 0 /\ ~filled.ok THEN PErr("panic")
             ELSE [ok |-> TRUE, err |-> "",
                   ead |-> Some([label |-> IF is_u8(label) THEN label
                                           ELSE label - (CBOR_NEG_INT_1BYTE_START - 1),
                                 is_critical |-> ~is_u8(label),
                                 value |-> IF Len(tail) > 0
                                           THEN Some([filled.buf EXCEPT !.len = Len(buffer)])
                                           ELSE None])]

\* buffer.fill_with_slice(tail).unwrap() panics when the tail is longer than
\* the buffer; buffer.len = tail.len() follows it
parse_ead(buffer) ==
    IF Len(buffer) = 0 THEN PErr("ParsingError")
    ELSE LET label == buffer[1]
             tail == SubSeq(buffer, 2, Len(buffer))
             filled == fill_with_slice(EdhocMessageBuffer_new, tail)
         IN  IF ~IsU8(label) THEN PUndet(1)
             ELSE IF ~(is_u8(label) \/ is_i8(label)) THEN PErr("ParsingError")
             ELSE IF Len(tail) > 0 /\ ~filled.ok THEN PErr("panic")
             ELSE [ok |-> TRUE, err |-> "",
                   ead |-> Some([label |-> IF is_u8(label) THEN label
                                           ELSE label - (CBOR_NEG_INT_1BYTE_START - 1),
                                 is_critical |-> ~is_u8(label),
                                 value |-> IF Len(tail) > 0
                                           THEN Some([filled.buf EXCEPT !.len = Len(tail)])
                                           ELSE None])]

\* for i in 0..suites_i_len { suites_i[i] = decoder.u8()? }
RECURSIVE SuitesLoop(_, _, _, _)
SuitesLoop(d, suites_i, i, n) ==
    IF i = n THEN [ok |-> TRUE, suites_i |-> suites_i, d |-> d]
    ELSE The({ IF ~r.ok THEN [ok |-> FALSE, r |-> r]
               ELSE SuitesLoop(r.d, [suites_i EXCEPT ![i + 1] = r.val], i + 1, n)
             : r \in {CBORDecoder_u8(d)} })

\* one suite
SuitesOne(r) ==
    IF ~r.ok THEN FromCBORError(r)
    ELSE [ok |-> TRUE, err |-> "", suites_i |-> [Zeros(SUITES_LEN) EXCEPT ![1] = r.val],
          suites_i_len |-> 1, d |-> r.d]

\* SuitesArray with one suite less than the array holds
SuitesArray_below_capacity(a) ==
    IF ~a.ok THEN FromCBORError(a)
    ELSE IF a.val < SUITES_LEN
    THEN The({ IF ~l.ok THEN FromCBORError(l.r)
               ELSE [ok |-> TRUE, err |-> "", suites_i |-> l.suites_i,
                     suites_i_len |-> a.val, d |-> l.d]
             : l \in {SuitesLoop(a.d, Zeros(SUITES_LEN), 0, a.val)} })
    ELSE PErr("ParsingError")

\* an array of suites, a the Result of decoder.array()
SuitesArray(a) ==
    IF ~a.ok THEN FromCBORError(a)
    ELSE IF a.val <= SUITES_LEN
    THEN The({ IF ~l.ok THEN FromCBORError(l.r)
               ELSE [ok |-> TRUE, err |-> "", suites_i |-> l.suites_i,
                     suites_i_len |-> a.val, d |-> l.d]
             : l \in {SuitesLoop(a.d, Zeros(SUITES_LEN), 0, a.val)} })
    ELSE PErr("ParsingError")

\* parse_suites_i without the single-suite form
parse_suites_i_arrays_only(decoder) ==
    The({ IF ~c.ok THEN PErr("ParsingError")
          ELSE IF ~IsU8(c.val) THEN PUndet(decoder.pos + 1)
          ELSE IF CBOR_MAJOR_ARRAY = type_of(c.val) /\ info_of(c.val) >= 2
               THEN SuitesArray(CBORDecoder_array(decoder))
          ELSE PErr("ParsingError")
        : c \in {current(decoder)} })

parse_suites_i(decoder) ==
    The({ IF ~c.ok THEN PErr("ParsingError")
          ELSE IF ~IsU8(c.val) THEN PUndet(decoder.pos + 1)
          ELSE IF CBOR_UINT_1BYTE_START = type_of(c.val)
               THEN SuitesOne(CBORDecoder_u8(decoder))
          ELSE IF CBOR_MAJOR_ARRAY = type_of(c.val) /\ info_of(c.val) >= 2
               THEN SuitesArray(CBORDecoder_array(decoder))
          ELSE PErr("ParsingError")
        : c \in {current(decoder)} })

\* The optional EAD tail that ends parse_message_1 and decode_plaintext_2/3.
EadTail(len, decoder) ==
    IF len > position(decoder)
    THEN The({ IF e.err = "Undetermined" THEN PUndet(position(decoder) + e.at) ELSE e
             : e \in {parse_ead(remaining_buffer(decoder))} })
    ELSE IF finished(decoder) THEN [ok |-> TRUE, err |-> "", ead |-> None]
    ELSE PErr("ParsingError")

\* parse_message_1 rejecting a method other than EDHOC_METHOD itself
parse_message_1_checking_method(rcvd_message_1) ==
    The({ IF ~m.ok THEN FromCBORError(m)
          ELSE IF m.val # EDHOC_METHOD THEN PErr("ParsingError") ELSE
    The({ IF ~s.ok THEN s ELSE
    The({ IF ~g.ok THEN FromCBORError(g) ELSE
    The({ IF ~c.ok THEN FromCBORError(c) ELSE
    The({ IF ~e.ok THEN e ELSE
          [ok |-> TRUE, err |-> "", method |-> m.val,
           suites_i |-> s.suites_i, suites_i_len |-> s.suites_i_len,
           g_x |-> g.val, c_i |-> c.val, ead_1 |-> e.ead]
        : e \in {EadTail(rcvd_message_1.len, c.d)} })
        : c \in {int_raw(g.d)} })
        : g \in {bytes_sized(s.d, P256_ELEM_LEN)} })
        : s \in {parse_suites_i(m.d)} })
        : m \in {CBORDecoder_u8(CBORDecoder_new(as_slice(rcvd_message_1)))} })

parse_message_1(rcvd_message_1) ==
    The({ IF ~m.ok THEN FromCBORError(m) ELSE
    The({ IF ~s.ok THEN s ELSE
    The({ IF ~g.ok THEN FromCBORError(g) ELSE
    The({ IF ~c.ok THEN FromCBORError(c) ELSE
    The({ IF ~e.ok THEN e ELSE
          [ok |-> TRUE, err |-> "", method |-> m.val,
           suites_i |-> s.suites_i, suites_i_len |-> s.suites_i_len,
           g_x |-> g.val, c_i |-> c.val, ead_1 |-> e.ead]
        : e \in {EadTail(rcvd_message_1.len, c.d)} })
        : c \in {int_raw(g.d)} })
        : g \in {bytes_sized(s.d, P256_ELEM_LEN)} })
        : s \in {parse_suites_i(m.d)} })
        : m \in {CBORDecoder_u8(CBORDecoder_new(as_slice(rcvd_message_1)))} })

\* parse_message_2, were it to take the byte string without testing that the
\* buffer ends with it
parse_message_2_ignoring_rest(rcvd_message_2) ==
    The({ IF ~r.ok THEN FromCBORError(r)
          ELSE IF Len(r.val) < P256_ELEM_LEN THEN PErr("ParsingError")
          ELSE
    The({ IF ~c2.ok THEN PErr("ParsingError")
          ELSE [ok |-> TRUE, err |-> "",
                g_y |-> SubSeq(r.val, 1, P256_ELEM_LEN), ciphertext_2 |-> c2.buf]
        : c2 \in {fill_with_slice(EdhocMessageBuffer_new,
                                  SubSeq(r.val, P256_ELEM_LEN + 1, Len(r.val)))} })
        : r \in {CBORDecoder_bytes(CBORDecoder_new(as_slice(rcvd_message_2)))} })

parse_message_2(rcvd_message_2) ==
    The({ IF ~r.ok THEN FromCBORError(r)
          ELSE IF ~finished(r.d) THEN PErr("ParsingError")
          ELSE IF Len(r.val) < P256_ELEM_LEN THEN PErr("ParsingError")
          ELSE
    The({ IF ~c2.ok THEN PErr("ParsingError")
          ELSE [ok |-> TRUE, err |-> "",
                g_y |-> SubSeq(r.val, 1, P256_ELEM_LEN), ciphertext_2 |-> c2.buf]
        : c2 \in {fill_with_slice(EdhocMessageBuffer_new,
                                  SubSeq(r.val, P256_ELEM_LEN + 1, Len(r.val)))} })
        : r \in {CBORDecoder_bytes(CBORDecoder_new(as_slice(rcvd_message_2)))} })

\* Ok(IdCred::FullCredential(..)) or Ok(IdCred::CompactKid(..)) of a decoder Result
AsIdCred(r, kind) == IF ~r.ok THEN r ELSE DOk([kind |-> kind, v |-> r.val], r.d)

\* the decoder of ID_CRED, were it to read a compact kid whatever the next
\* byte is
DecodeIdCred_compact_only(decoder) ==
    AsIdCred(int_raw(decoder), "CompactKid")

\* IdCred: CompactKid(u8) or FullCredential(&[u8]), as both plaintext decoders read it.
DecodeIdCred(decoder) ==
    The({ IF ~c.ok THEN c
          ELSE IF ~IsU8(c.val) THEN DSym(decoder, decoder.pos + 1)
          ELSE IF CBOR_MAJOR_BYTE_STRING = type_of(c.val) /\ info_of(c.val) > 1
               THEN AsIdCred(CBORDecoder_bytes(decoder), "FullCredential")
          ELSE AsIdCred(int_raw(decoder), "CompactKid")
        : c \in {current(decoder)} })

decode_plaintext_2(plaintext_2) ==
    The({ IF ~c.ok THEN FromCBORError(c) ELSE
    The({ IF ~i.ok THEN FromCBORError(i) ELSE
    The({ IF ~m.ok THEN FromCBORError(m) ELSE
    The({ IF ~e.ok THEN e ELSE
          [ok |-> TRUE, err |-> "", c_r |-> c.val, id_cred_r |-> i.val,
           mac_2 |-> m.val, ead_2 |-> e.ead]
        : e \in {EadTail(plaintext_2.len, m.d)} })
        : m \in {bytes_sized(i.d, MAC_LENGTH_2)} })
        : i \in {DecodeIdCred(c.d)} })
        : c \in {int_raw(CBORDecoder_new(as_slice(plaintext_2)))} })

decode_plaintext_3(plaintext_3) ==
    The({ IF ~i.ok THEN FromCBORError(i) ELSE
    The({ IF ~m.ok THEN FromCBORError(m) ELSE
    The({ IF ~e.ok THEN e ELSE
          [ok |-> TRUE, err |-> "", id_cred_i |-> i.val,
           mac_3 |-> m.val, ead_3 |-> e.ead]
        : e \in {EadTail(plaintext_3.len, m.d)} })
        : m \in {bytes_sized(i.d, MAC_LENGTH_3)} })
        : i \in {DecodeIdCred(CBORDecoder_new(as_slice(plaintext_3)))} })

\* encode_info, were it to write the length of the context in the head byte
\* whatever the length is
encode_info_short_head(label, context, context_len, length) ==
    LET ctx == SubSeq(context, 1, context_len)
        head == <<label, (context_len % 256) + CBOR_MAJOR_BYTE_STRING>> \o ctx
        tail == IF length < 24 THEN <<length % 256>> ELSE <<CBOR_UINT_1BYTE, length % 256>>
    IN  [info |-> head \o tail, info_len |-> Len(head) + Len(tail)]

\* helpers::encode_info: (info, info_len).  `x as u8` keeps the low 8 bits;
\* below 24 the bitwise or with CBOR_MAJOR_BYTE_STRING is an addition.
encode_info(label, context, context_len, length) ==
    LET ctx == SubSeq(context, 1, context_len)
        head == IF context_len < 24
                THEN <<label, (context_len % 256) + CBOR_MAJOR_BYTE_STRING>> \o ctx
                ELSE <<label, CBOR_BYTE_STRING, context_len % 256>> \o ctx
        tail == IF length < 24 THEN <<length % 256>> ELSE <<CBOR_UINT_1BYTE, length % 256>>
    IN  [info |-> head \o tail, info_len |-> Len(head) + Len(tail)]

----------------------------------------------------------------------------
(* Test vectors of the crate's tests (test_vectors_common).                *)

CRED_I ==
    <<162, 2, 119, 52, 50, 45, 53, 48, 45, 51, 49, 45, 70, 70, 45, 69, 70, 45, 51, 55,
      45, 51, 50, 45, 51, 57, 8, 161, 1, 165, 1, 2, 2, 65, 43, 32, 1, 33, 88, 32, 172,
      117, 233, 236, 227, 229, 11, 252, 142, 214, 3, 153, 136, 149, 34, 64, 92, 71, 191,
      22, 223, 150, 102, 10, 65, 41, 140, 180, 48, 127, 126, 182, 34, 88, 32, 110, 93,
      230, 17, 56, 138, 75, 138, 130, 17, 51, 74, 199, 211, 126, 203, 82, 163, 135, 210,
      87, 230, 219, 60, 42, 147, 223, 33, 255, 58, 255, 200>>
I ==
    <<251, 19, 173, 235, 101, 24, 206, 229, 248, 132, 23, 102, 8, 65, 20, 46, 131, 10,
      129, 254, 51, 67, 128, 169, 83, 64, 106, 19, 5, 232, 112, 107>>
R ==
    <<114, 204, 71, 97, 219, 212, 199, 143, 117, 137, 49, 170, 88, 157, 52, 141, 30,
      248, 116, 167, 227, 3, 237, 226, 241, 64, 220, 243, 230, 170, 74, 172>>
CRED_R ==
    <<162, 2, 96, 8, 161, 1, 165, 1, 2, 2, 65, 10, 32, 1, 33, 88, 32, 187, 195, 73, 96,
      82, 110, 164, 211, 46, 148, 12, 173, 42, 35, 65, 72, 221, 194, 23, 145, 161, 42,
      251, 203, 172, 147, 98, 32, 70, 221, 68, 240, 34, 88, 32, 69, 25, 226, 87, 35,
      107, 42, 12, 226, 2, 63, 9, 49, 241, 243, 134, 202, 122, 253, 166, 79, 205, 224,
      16, 140, 34, 76, 81, 234, 191, 96, 114>>
MESSAGE_1_TV_FIRST_TIME ==
    <<3, 6, 88, 32, 116, 26, 19, 215, 186, 4, 143, 187, 97, 94, 148, 56, 106, 163, 182,
      27, 234, 91, 61, 143, 101, 243, 38, 32, 183, 73, 190, 232, 210, 120, 239, 169,
      14>>
MESSAGE_1_TV ==
    <<3, 130, 6, 2, 88, 32, 138, 246, 244, 48, 235, 225, 141, 52, 24, 64, 23, 169, 161,
      27, 245, 17, 200, 223, 248, 248, 52, 115, 11, 150, 193, 183, 200, 219, 202, 47,
      195, 182, 55>>

\* EdhocMessageBuffer::from_hex of a string of 2 * Len(bytes) digits
from_hex(bytes) == fill_with_slice(EdhocMessageBuffer_new, bytes).buf

----------------------------------------------------------------------------
(* The crypto backend (trait Crypto), as ideal primitives.  orc is the     *)
(* table of the calls made so far; a call returns the bytes SymByte(id, .) *)
(* of its entry id, so equal calls return equal bytes and different calls  *)
(* return bytes that differ everywhere.  Each operation takes the table    *)
(* and returns it as [o |-> table, v |-> result].                          *)

Intern(o, t) ==
    LET hits == {i \in 1..Len(o) : o[i] = t}
    IN  IF hits # {} THEN [o |-> o, id |-> CHOOSE i \in hits : TRUE]
        ELSE [o |-> Append(o, t), id |-> Len(o) + 1]

Out(id, n) == [i \in 1..n |-> SymByte(id, i, 0)]

IsWholeOut(bytes) ==
    /\ Len(bytes) > 0
    /\ ~IsU8(bytes[1])
    /\ \A i \in 1..Len(bytes) : bytes[i] = SymByte(SymId(bytes[1]), i, 0)

Kind(o, b) == o[SymId(b)][1]

\* the n output bytes of the entry r that Intern returned
Output(r, n) == [o |-> r.o, v |-> Out(r.id, n)]

sha256_digest(o, message) ==
    Output(Intern(o, <<"sha256", message>>), SHA256_DIGEST_LEN)

hkdf_extract(o, salt, ikm) ==
    Output(Intern(o, <<"extract", salt, ikm>>), SHA256_DIGEST_LEN)

\* -> BytesMaxBuffer, of which the first length bytes are the output
hkdf_expand(o, prk, info, info_len, length) ==
    The({ [o |-> r.o,
           v |-> [i \in 1..MAX_BUFFER_LEN |-> IF i <= length THEN SymByte(r.id, i, 0) ELSE 0]]
        : r \in {Intern(o, <<"expand", prk, SubSeq(info, 1, info_len)>>)} })

\* (private key, public key): a new entry each call
p256_generate_key_pair(o) ==
    LET sk == Len(o) + 1
        o2 == o \o << <<"sk", sk>>, <<"pub", sk>> >>
    IN  [o |-> o2, sk |-> Out(sk, P256_ELEM_LEN), pk |-> Out(sk + 1, P256_ELEM_LEN)]

\* The public keys of the test vectors' private keys I and R, as CRED_I and
\* CRED_R hold them.
G_I == SubSeq(CRED_I, 41, 72)
G_R == SubSeq(CRED_R, 18, 49)

PrivateKeyId(o, sk) ==
    IF sk = I THEN -1
    ELSE IF sk = R THEN -2
    ELSE IF IsWholeOut(sk) /\ Len(sk) = P256_ELEM_LEN /\ Kind(o, sk[1]) = "sk"
         THEN SymId(sk[1])
    ELSE 0

PublicKeyId(o, pk) ==
    IF pk = G_I THEN -1
    ELSE IF pk = G_R THEN -2
    ELSE IF IsWholeOut(pk) /\ Len(pk) = P256_ELEM_LEN /\ Kind(o, pk[1]) = "pub"
         THEN o[SymId(pk[1])][2]
    ELSE 0

\* ecdh(a, pub(b)) = ecdh(b, pub(a)); anything else is a value of its own
SharedSecret(o, a, b, private_key, public_key) ==
    IF a # 0 /\ b # 0 THEN Intern(o, <<"dh", {a, b}>>)
    ELSE Intern(o, <<"dh?", private_key, public_key>>)

p256_ecdh(o, private_key, public_key) ==
    Output(SharedSecret(o, PrivateKeyId(o, private_key), PublicKeyId(o, public_key),
                        private_key, public_key),
           P256_ELEM_LEN)

\* -> ciphertext || tag
aes_ccm_encrypt_tag_8(o, key, iv, ad, plaintext) ==
    Output(Intern(o, <<"aead", key, iv, ad, plaintext>>), Len(plaintext) + AES_CCM_TAG_LEN)

aes_ccm_decrypt_tag_8(o, key, iv, ad, ciphertext) ==
    IF /\ IsWholeOut(ciphertext)
       /\ Kind(o, ciphertext[1]) = "aead"
       /\ LET t == o[SymId(ciphertext[1])]
          IN  t[2] = key /\ t[3] = iv /\ t[4] = ad
              /\ Len(t[5]) + AES_CCM_TAG_LEN = Len(ciphertext)
    THEN [ok |-> TRUE, err |-> "", v |-> o[SymId(ciphertext[1])][5]]
    ELSE [ok |-> FALSE, err |-> "MacVerificationFailed", v |-> <<>>]

\* a ^ b of two bytes.  The XOR of two different output bytes is an entry of
\* its own (XorTerm), and XORing one of the two onto it again gives back the
\* other.
SymFromAtom(atom, mask) == 256 + atom * 256 + mask

XorTerm(a, b) ==
    LET pa == SymAtom(a) pb == SymAtom(b)
    IN  <<"xor", IF pa < pb THEN pa ELSE pb, IF pa < pb THEN pb ELSE pa>>

\* a ^ b is neither a byte nor an output byte the table has
XorIsNew(o, a, b) ==
    /\ ~IsU8(a) /\ ~IsU8(b)
    /\ SymAtom(a) # SymAtom(b)
    /\ LET ta == o[SymId(a)] tb == o[SymId(b)]
       IN  /\ ~(ta[1] = "xor" /\ SymAtom(b) \in {ta[2], ta[3]})
           /\ ~(tb[1] = "xor" /\ SymAtom(a) \in {tb[2], tb[3]})
    /\ \A i \in 1..Len(o) : o[i] # XorTerm(a, b)

\* a ^ b, in a table that has its entry
XorByte(o, a, b) ==
    IF IsU8(a) /\ IsU8(b) THEN Xor8(a, b)
    ELSE IF IsU8(a) THEN SymFromAtom(SymAtom(b), Xor8(SymMask(b), a))
    ELSE IF IsU8(b) THEN SymFromAtom(SymAtom(a), Xor8(SymMask(a), b))
    ELSE LET m == Xor8(SymMask(a), SymMask(b))
             pa == SymAtom(a)
             pb == SymAtom(b)
             ta == o[SymId(a)]
             tb == o[SymId(b)]
         IN  IF pa = pb THEN m
             ELSE IF ta[1] = "xor" /\ pb \in {ta[2], ta[3]}
                  THEN SymFromAtom(IF pb = ta[2] THEN ta[3] ELSE ta[2], m)
             ELSE IF tb[1] = "xor" /\ pa \in {tb[2], tb[3]}
                  THEN SymFromAtom(IF pa = tb[2] THEN tb[3] ELSE tb[2], m)
             ELSE SymByte(Intern(o, XorTerm(a, b)).id, 1, m)

\* a ^ b of two byte strings: the new entries first, then the bytes
XorBytes(o, a, b) ==
    LET IsNew(i) == XorIsNew(o, a[i], b[i]) IN
    The({ [o |-> t, v |-> [i \in 1..Len(a) |-> XorByte(t, a[i], b[i])]]
        : t \in {The({ o \o [k \in 1..Len(at) |-> XorTerm(a[at[k]], b[at[k]])]
                     : at \in {SelectSeq([i \in 1..Len(a) |-> i], IsNew)} })} })

----------------------------------------------------------------------------
(* CredentialRPK (shared/src/cred.rs): [value, public_key, kid].  A CCS is *)
(* read by offsets from the length of its subject text string.             *)

BytesTo(slice) ==
    IF Len(slice) <= MAX_MESSAGE_SIZE_LEN
    THEN [ok |-> TRUE, buf |-> [content |-> Overwrite(Zeros(MAX_MESSAGE_SIZE_LEN), 0, slice),
                                len |-> Len(slice)]]
    ELSE [ok |-> FALSE, buf |-> EdhocMessageBuffer_new]

CCS_PREFIX_LEN == 3
CCS_KID_OFFSET == 8
CCS_KEY_OFFSET == 14

CredentialRPK_parse(cred) ==
    IF Len(cred) < CCS_PREFIX_LEN THEN PErr("ParsingError")
    ELSE LET subject_len == info_of(cred[CCS_PREFIX_LEN])
             id_cred_offset == CCS_PREFIX_LEN + subject_len + CCS_KID_OFFSET
             g_a_x_offset == CCS_PREFIX_LEN + subject_len + CCS_KEY_OFFSET
         IN  IF g_a_x_offset + P256_ELEM_LEN > Len(cred) THEN PErr("ParsingError")
             ELSE [ok |-> TRUE, err |-> "",
                   public_key |-> SubSeq(cred, g_a_x_offset + 1, g_a_x_offset + P256_ELEM_LEN),
                   kid |-> cred[id_cred_offset + 1]]

CredentialRPK_new(value) ==
    The({ IF ~r.ok THEN PErr("ParsingError")
          ELSE [ok |-> TRUE, err |-> "",
                cred |-> [value |-> value, public_key |-> r.public_key, kid |-> r.kid]]
        : r \in {CredentialRPK_parse(as_slice(value))} })

reference_only(cred) == cred.value.len = 0

get_id_cred(cred) == <<161, 4, 65, cred.kid>>

\* IdCred::CompactKid(kid) => CredentialRPK with default value and public_key;
\* IdCred::FullCredential(cred) => CredentialRPK::new(cred.try_into()?)?
IdCredToCredential(id_cred) ==
    IF id_cred.kind = "CompactKid"
    THEN [ok |-> TRUE, err |-> "",
          cred |-> [value |-> EdhocMessageBuffer_new,
                    public_key |-> Zeros(P256_ELEM_LEN), kid |-> id_cred.v]]
    ELSE The({ IF ~b.ok THEN PErr("ParsingError") ELSE CredentialRPK_new(b.buf)
             : b \in {BytesTo(id_cred.v)} })

----------------------------------------------------------------------------
(* edhoc.rs: key schedule, transcript hashes, MACs and message encoders.   *)
(* The operations that call the backend take and return the table.         *)

KDF_LABEL_KEYSTREAM_2 == 0
KDF_LABEL_SALT_3E2M == 1
KDF_LABEL_MAC_2 == 2
KDF_LABEL_K_3 == 3
KDF_LABEL_IV_3 == 4
KDF_LABEL_SALT_4E3M == 5
KDF_LABEL_MAC_3 == 6
KDF_LABEL_PRK_OUT == 7
KDF_LABEL_PRK_EXPORTER == 10
KDF_LABEL_KEY_UPDATE == 11

edhoc_kdf(o, prk, label, context, context_len, length) ==
    The({ hkdf_expand(o, prk, e.info, e.info_len, length)
        : e \in {encode_info(label, context, context_len, length)} })

Kdf(o, prk, label, context, length) ==
    The({ [o |-> r.o, v |-> SubSeq(r.v, 1, length)]
        : r \in {edhoc_kdf(o, prk, label, context, Len(context), length)} })

Bstr32(b) == <<CBOR_BYTE_STRING, P256_ELEM_LEN>> \o b

compute_th_2(o, g_y, h_message_1) ==
    sha256_digest(o, Bstr32(g_y) \o Bstr32(h_message_1))

compute_th_3(o, th_2, plaintext_2, cred_r) ==
    sha256_digest(o, Bstr32(th_2) \o as_slice(plaintext_2) \o cred_r)

compute_th_4(o, th_3, plaintext_3, cred_i) ==
    sha256_digest(o, Bstr32(th_3) \o as_slice(plaintext_3) \o cred_i)

compute_prk_2e(o, x, g_y, th_2) ==
    The({ hkdf_extract(g_xy.o, th_2, g_xy.v) : g_xy \in {p256_ecdh(o, x, g_y)} })

compute_salt_3e2m(o, prk_2e, th_2) ==
    Kdf(o, prk_2e, KDF_LABEL_SALT_3E2M, th_2, SHA256_DIGEST_LEN)

compute_prk_3e2m(o, salt_3e2m, x, g_r) ==
    The({ hkdf_extract(g_rx.o, salt_3e2m, g_rx.v) : g_rx \in {p256_ecdh(o, x, g_r)} })

compute_salt_4e3m(o, prk_3e2m, th_3) ==
    Kdf(o, prk_3e2m, KDF_LABEL_SALT_4E3M, th_3, SHA256_DIGEST_LEN)

compute_prk_4e3m(o, salt_4e3m, i, g_y) ==
    The({ hkdf_extract(g_iy.o, salt_4e3m, g_iy.v) : g_iy \in {p256_ecdh(o, i, g_y)} })

\* label, then the value bytes, as the EAD tail of a message or a context
encode_ead_item(ead) ==
    IF ~ead.some THEN <<>>
    ELSE <<IF ead.v.is_critical THEN ead.v.label + (CBOR_NEG_INT_1BYTE_START - 1)
           ELSE ead.v.label>>
         \o (IF ead.v.value.some THEN as_slice(ead.v.value.v) ELSE <<>>)

\* context_2 = ID_CRED_R, bstr(TH_2), CRED_R, ?EAD_2 (context_3 likewise)
encode_kdf_context(id_cred, th, cred, ead) ==
    id_cred \o Bstr32(th) \o cred \o encode_ead_item(ead)

compute_mac_2(o, prk_3e2m, id_cred_r, cred_r, th_2, ead_2) ==
    Kdf(o, prk_3e2m, KDF_LABEL_MAC_2, encode_kdf_context(id_cred_r, th_2, cred_r, ead_2),
        MAC_LENGTH_2)

compute_mac_3(o, prk_4e3m, th_3, id_cred_i, cred_i, ead_3) ==
    Kdf(o, prk_4e3m, KDF_LABEL_MAC_3, encode_kdf_context(id_cred_i, th_3, cred_i, ead_3),
        MAC_LENGTH_3)

compute_k_3_iv_3(o, prk_3e2m, th_3) ==
    The({
    The({ [o |-> iv.o, k_3 |-> k.v, iv_3 |-> iv.v]
        : iv \in {Kdf(k.o, prk_3e2m, KDF_LABEL_IV_3, th_3, AES_CCM_IV_LEN)} })
        : k \in {Kdf(o, prk_3e2m, KDF_LABEL_K_3, th_3, AES_CCM_KEY_LEN)} })

\* ["Encrypt0", h'', bstr(TH_3)]
encode_enc_structure(th_3) ==
    <<131, 104, 69, 110, 99, 114, 121, 112, 116, 48, 64>> \o Bstr32(th_3)

\* CIPHERTEXT_2 = PLAINTEXT_2 XOR KEYSTREAM_2 (and back)
encrypt_decrypt_ciphertext_2(o, prk_2e, th_2, ciphertext_2) ==
    The({ [o |-> x.o, buf |-> [content |-> Overwrite(ciphertext_2.content, 0, x.v),
                               len |-> ciphertext_2.len]]
        : x \in {The({ XorBytes(ks.o, as_slice(ciphertext_2), ks.v)
                     : ks \in {Kdf(o, prk_2e, KDF_LABEL_KEYSTREAM_2, th_2,
                                   ciphertext_2.len)} })} })

Buf(bytes) == BytesTo(bytes).buf

encode_message_1(method, suites_i, suites_i_len, g_x, c_i, ead_1) ==
    Buf(<<method>>
        \o (IF suites_i_len = 1 THEN <<suites_i[1]>>
            ELSE <<CBOR_MAJOR_ARRAY + suites_i_len>> \o SubSeq(suites_i, 1, suites_i_len))
        \o Bstr32(g_x) \o <<c_i>> \o encode_ead_item(ead_1))

EncodeIdCred(id_cred) ==
    IF id_cred.kind = "CompactKid" THEN <<id_cred.v>>
    ELSE <<CBOR_BYTE_STRING, Len(id_cred.v)>> \o id_cred.v

encode_plaintext_2(c_r, id_cred_r, mac_2, ead_2) ==
    Buf(<<c_r>> \o EncodeIdCred(id_cred_r)
        \o <<CBOR_MAJOR_BYTE_STRING + MAC_LENGTH_2>> \o mac_2 \o encode_ead_item(ead_2))

encode_plaintext_3(id_cred_i, mac_3, ead_3) ==
    Buf(EncodeIdCred(id_cred_i)
        \o <<CBOR_MAJOR_BYTE_STRING + MAC_LENGTH_3>> \o mac_3 \o encode_ead_item(ead_3))

encode_message_2(g_y, ciphertext_2) ==
    Buf(<<CBOR_BYTE_STRING, P256_ELEM_LEN + ciphertext_2.len>> \o g_y \o as_slice(ciphertext_2))

encode_message_3(ciphertext_3) ==
    Buf((IF Len(ciphertext_3) < 24 THEN <<CBOR_MAJOR_BYTE_STRING + Len(ciphertext_3)>>
         ELSE <<CBOR_BYTE_STRING, Len(ciphertext_3)>>) \o ciphertext_3)

(* A received byte that is a byte of a primitive's output and that a       *)
(* parser inspects has, for the parser, any value.  tape lists the values  *)
(* the inspected bytes take, in the order the parser meets them (0xff once *)
(* the tape is used up).                                                   *)
Fix(buf, at, tape) ==
    [buf EXCEPT !.content[at] = IF tape = <<>> THEN 255 ELSE Head(tape)]

Rest(tape) == IF tape = <<>> THEN <<>> ELSE Tail(tape)

RECURSIVE ResolveMessage1(_, _)
ResolveMessage1(message_1, tape) ==
    The({ IF p.err = "Undetermined"
          THEN ResolveMessage1(Fix(message_1, p.at, tape), Rest(tape))
          ELSE p
        : p \in {parse_message_1(message_1)} })

RECURSIVE ResolveMessage2(_, _)
ResolveMessage2(message_2, tape) ==
    The({ IF p.err = "Undetermined"
          THEN ResolveMessage2(Fix(message_2, p.at, tape), Rest(tape))
          ELSE p
        : p \in {parse_message_2(message_2)} })

\* fixed: whether a byte had to be fixed so far
RECURSIVE ResolvePlaintext2(_, _, _)
ResolvePlaintext2(plaintext_2, tape, fixed) ==
    The({ IF p.err = "Undetermined"
          THEN ResolvePlaintext2(Fix(plaintext_2, p.at, tape), Rest(tape), TRUE)
          ELSE [p |-> p, plaintext |-> plaintext_2, fixed |-> fixed]
        : p \in {decode_plaintext_2(plaintext_2)} })

RECURSIVE ResolvePlaintext3(_, _)
ResolvePlaintext3(plaintext_3, tape) ==
    The({ IF p.err = "Undetermined"
          THEN ResolvePlaintext3(Fix(plaintext_3, p.at, tape), Rest(tape))
          ELSE [p |-> p, plaintext |-> plaintext_3]
        : p \in {decode_plaintext_3(plaintext_3)} })

Fail(o, e) == [ok |-> FALSE, err |-> e, o |-> o, fixed |-> FALSE]

----------------------------------------------------------------------------
(* edhoc.rs: the Responder's steps.                                        *)

r_process_message_1(o, state, message_1, tape) ==
    The({ IF ~p.ok THEN Fail(o, p.err)
          ELSE IF p.method # EDHOC_METHOD THEN Fail(o, "UnsupportedMethod")
          ELSE IF p.suites_i_len = 0 THEN Fail(o, "panic")
          ELSE IF p.suites_i[p.suites_i_len] # EDHOC_SUPPORTED_SUITES[1]
               THEN Fail(o, "UnsupportedCipherSuite")
          ELSE
    The({ [ok |-> TRUE, err |-> "", o |-> h.o,
           state |-> [y |-> state.y, g_y |-> state.g_y, c_i |-> p.c_i, g_x |-> p.g_x,
                      h_message_1 |-> h.v],
           ead_1 |-> p.ead_1]
        : h \in {sha256_digest(o, as_slice(message_1))} })
        : p \in {ResolveMessage1(message_1, tape)} })

\* ID_CRED_x as the plaintext carries it
IdCredOf(cred, cred_transfer) ==
    IF cred_transfer = "ByValue"
    THEN [kind |-> "FullCredential", v |-> as_slice(cred.value)]
    ELSE [kind |-> "CompactKid", v |-> cred.kid]

r_prepare_message_2(o, state, cred_r, r, c_r, cred_transfer, ead_2) ==
    The({ The({ The({ The({ The({ The({ The({ The({
          [ok |-> TRUE, err |-> "", o |-> ct.o,
           state |-> [y |-> state.y, prk_3e2m |-> prk_3e2m.v, th_3 |-> th_3.v],
           message_2 |-> encode_message_2(state.g_y, ct.buf)]
        : ct \in {encrypt_decrypt_ciphertext_2(th_3.o, prk_2e.v, th_2.v, plaintext_2)} })
        : th_3 \in {compute_th_3(mac_2.o, th_2.v, plaintext_2, as_slice(cred_r.value))} })
        : plaintext_2 \in {encode_plaintext_2(c_r, IdCredOf(cred_r, cred_transfer),
                                              mac_2.v, ead_2)} })
        : mac_2 \in {compute_mac_2(prk_3e2m.o, prk_3e2m.v, get_id_cred(cred_r),
                                   as_slice(cred_r.value), th_2.v, ead_2)} })
        : prk_3e2m \in {compute_prk_3e2m(salt_3e2m.o, salt_3e2m.v, r, state.g_x)} })
        : salt_3e2m \in {compute_salt_3e2m(prk_2e.o, prk_2e.v, th_2.v)} })
        : prk_2e \in {compute_prk_2e(th_2.o, state.y, state.g_x, th_2.v)} })
        : th_2 \in {compute_th_2(o, state.g_y, state.h_message_1)} })

decrypt_message_3(o, prk_3e2m, th_3, message_3) ==
    The({ IF ~b.ok \/ ~finished(b.d) THEN Fail(o, "ParsingError") ELSE
    The({ The({ IF ~p3.ok THEN Fail(k.o, p3.err)
                ELSE [ok |-> TRUE, err |-> "", o |-> k.o, plaintext_3 |-> Buf(p3.v)]
        : p3 \in {aes_ccm_decrypt_tag_8(k.o, k.k_3, k.iv_3, encode_enc_structure(th_3),
                                        b.val)} })
        : k \in {compute_k_3_iv_3(o, prk_3e2m, th_3)} })
        : b \in {CBORDecoder_bytes(CBORDecoder_new(as_slice(message_3)))} })

r_parse_message_3(o, state, message_3, tape) ==
    The({ IF ~d.ok THEN d ELSE
    The({ IF ~r.p.ok THEN Fail(d.o, r.p.err) ELSE
    The({ IF ~c.ok THEN Fail(d.o, c.err) ELSE
          [ok |-> TRUE, err |-> "", o |-> d.o,
           state |-> [mac_3 |-> r.p.mac_3, y |-> state.y,
                      prk_3e2m |-> state.prk_3e2m, th_3 |-> state.th_3,
                      plaintext_3 |-> r.plaintext, ead_3 |-> r.p.ead_3],
           id_cred_i |-> c.cred, ead_3 |-> r.p.ead_3]
        : c \in {IdCredToCredential(r.p.id_cred_i)} })
        : r \in {ResolvePlaintext3(d.plaintext_3, tape)} })
        : d \in {decrypt_message_3(o, state.prk_3e2m, state.th_3, message_3)} })

r_verify_message_3(o, state, valid_cred_i) ==
    The({ The({ The({
          IF state.mac_3 # expected_mac_3.v
          THEN Fail(expected_mac_3.o, "MacVerificationFailed")
          ELSE
    The({ The({ The({
          [ok |-> TRUE, err |-> "", o |-> prk_exporter.o,
           state |-> [prk_out |-> prk_out.v, prk_exporter |-> prk_exporter.v],
           prk_out |-> prk_out.v]
        : prk_exporter \in {Kdf(prk_out.o, prk_out.v, KDF_LABEL_PRK_EXPORTER, <<>>,
                                SHA256_DIGEST_LEN)} })
        : prk_out \in {Kdf(th_4.o, prk_4e3m.v, KDF_LABEL_PRK_OUT, th_4.v,
                           SHA256_DIGEST_LEN)} })
        : th_4 \in {compute_th_4(expected_mac_3.o, state.th_3, state.plaintext_3,
                                 as_slice(valid_cred_i.value))} })
        : expected_mac_3 \in {compute_mac_3(prk_4e3m.o, prk_4e3m.v, state.th_3,
                                            get_id_cred(valid_cred_i),
                                            as_slice(valid_cred_i.value), state.ead_3)} })
        : prk_4e3m \in {compute_prk_4e3m(salt_4e3m.o, salt_4e3m.v, state.y,
                                         valid_cred_i.public_key)} })
        : salt_4e3m \in {compute_salt_4e3m(o, state.prk_3e2m, state.th_3)} })

----------------------------------------------------------------------------
(* edhoc.rs: the Initiator's steps, the exporter and the key update.       *)

i_prepare_message_1(o, state, c_i, ead_1) ==
    The({ The({
          [ok |-> TRUE, err |-> "", o |-> h.o,
           state |-> [x |-> state.x, h_message_1 |-> h.v],
           message_1 |-> message_1]
        : h \in {sha256_digest(o, as_slice(message_1))} })
        : message_1 \in {encode_message_1(EDHOC_METHOD, state.suites_i, state.suites_i_len,
                                          state.g_x, c_i, ead_1)} })

i_parse_message_2(o, state, message_2, tape) ==
    The({ IF ~m.ok THEN Fail(o, m.err) ELSE
    The({ The({ The({ The({
          IF ~r.p.ok THEN [Fail(pt.o, "ParsingError") EXCEPT !.fixed = r.fixed] ELSE
    The({ IF ~c.ok THEN [Fail(pt.o, c.err) EXCEPT !.fixed = r.fixed] ELSE
          [ok |-> TRUE, err |-> "", o |-> pt.o, fixed |-> r.fixed,
           state |-> [mac_2 |-> r.p.mac_2, prk_2e |-> prk_2e.v,
                      th_2 |-> th_2.v, x |-> state.x, g_y |-> m.g_y,
                      plaintext_2 |-> r.plaintext, c_r |-> r.p.c_r,
                      ead_2 |-> r.p.ead_2],
           c_r |-> r.p.c_r, id_cred_r |-> c.cred, ead_2 |-> r.p.ead_2]
        : c \in {IdCredToCredential(r.p.id_cred_r)} })
        : r \in {ResolvePlaintext2(pt.buf, tape, FALSE)} })
        : pt \in {encrypt_decrypt_ciphertext_2(prk_2e.o, prk_2e.v, th_2.v,
                                               m.ciphertext_2)} })
        : prk_2e \in {compute_prk_2e(th_2.o, state.x, m.g_y, th_2.v)} })
        : th_2 \in {compute_th_2(o, m.g_y, state.h_message_1)} })
        : m \in {ResolveMessage2(message_2, tape)} })

i_verify_message_2(o, state, valid_cred_r, i) ==
    The({ The({ The({
          IF state.mac_2 # expected_mac_2.v
          THEN Fail(expected_mac_2.o, "MacVerificationFailed")
          ELSE
    The({ The({ The({
          [ok |-> TRUE, err |-> "", o |-> prk_4e3m.o,
           state |-> [prk_3e2m |-> prk_3e2m.v, prk_4e3m |-> prk_4e3m.v,
                      th_3 |-> th_3.v]]
        : prk_4e3m \in {compute_prk_4e3m(salt_4e3m.o, salt_4e3m.v, i, state.g_y)} })
        : salt_4e3m \in {compute_salt_4e3m(th_3.o, prk_3e2m.v, th_3.v)} })
        : th_3 \in {compute_th_3(expected_mac_2.o, state.th_2, state.plaintext_2,
                                 as_slice(valid_cred_r.value))} })
        : expected_mac_2 \in {compute_mac_2(prk_3e2m.o, prk_3e2m.v,
                                            get_id_cred(valid_cred_r),
                                            as_slice(valid_cred_r.value), state.th_2,
                                            state.ead_2)} })
        : prk_3e2m \in {compute_prk_3e2m(salt_3e2m.o, salt_3e2m.v, state.x,
                                         valid_cred_r.public_key)} })
        : salt_3e2m \in {compute_salt_3e2m(o, state.prk_2e, state.th_2)} })

i_prepare_message_3(o, state, cred_i, cred_transfer, ead_3) ==
    The({ The({ The({ The({ The({ The({ The({
          [ok |-> TRUE, err |-> "", o |-> prk_exporter.o,
           state |-> [prk_out |-> prk_out.v, prk_exporter |-> prk_exporter.v],
           message_3 |-> encode_message_3(ct.v), prk_out |-> prk_out.v]
        : prk_exporter \in {Kdf(prk_out.o, prk_out.v, KDF_LABEL_PRK_EXPORTER, <<>>,
                                SHA256_DIGEST_LEN)} })
        : prk_out \in {Kdf(th_4.o, state.prk_4e3m, KDF_LABEL_PRK_OUT, th_4.v,
                           SHA256_DIGEST_LEN)} })
        : th_4 \in {compute_th_4(ct.o, state.th_3, plaintext_3, as_slice(cred_i.value))} })
        : ct \in {aes_ccm_encrypt_tag_8(k.o, k.k_3, k.iv_3,
                                        encode_enc_structure(state.th_3),
                                        as_slice(plaintext_3))} })
        : k \in {compute_k_3_iv_3(mac_3.o, state.prk_3e2m, state.th_3)} })
        : plaintext_3 \in {encode_plaintext_3(IdCredOf(cred_i, cred_transfer), mac_3.v,
                                              ead_3)} })
        : mac_3 \in {compute_mac_3(o, state.prk_4e3m, state.th_3, get_id_cred(cred_i),
                                   as_slice(cred_i.value), ead_3)} })

\* state: Completed; -> BytesMaxBuffer
edhoc_exporter(o, state, label, context, context_len, length) ==
    edhoc_kdf(o, state.prk_exporter, label, context, context_len, length)

\* PRK_out = edhoc_kdf(PRK_exporter, 11, context, 32), then PRK_exporter anew
edhoc_key_update(o, state, context, context_len) ==
    The({ The({
          [o |-> prk_exporter.o,
           state |-> [prk_out |-> SubSeq(prk_new.v, 1, SHA256_DIGEST_LEN),
                      prk_exporter |-> prk_exporter.v],
           prk_out |-> SubSeq(prk_new.v, 1, SHA256_DIGEST_LEN)]
        : prk_exporter \in {Kdf(prk_new.o, SubSeq(prk_new.v, 1, SHA256_DIGEST_LEN),
                                KDF_LABEL_PRK_EXPORTER, <<>>, SHA256_DIGEST_LEN)} })
        : prk_new \in {edhoc_kdf(o, state.prk_exporter, KDF_LABEL_KEY_UPDATE, context,
                                 context_len, SHA256_DIGEST_LEN)} })

----------------------------------------------------------------------------
(* lib.rs: credential_check_or_fetch and the connection identifier.        *)

\* credential_check_or_fetch, were it to return the credential as received
\* where the two match
credential_check_or_fetch_received(cred_expected, id_cred_received) ==
    IF cred_expected.some
    THEN LET credentials_match ==
                 IF reference_only(id_cred_received)
                 THEN id_cred_received.kid = cred_expected.v.kid
                 ELSE id_cred_received.value = cred_expected.v.value
         IN  IF credentials_match THEN [ok |-> TRUE, err |-> "", cred |-> id_cred_received]
             ELSE PErr("UnknownPeer")
    ELSE IF reference_only(id_cred_received) THEN PErr("panic")
    ELSE [ok |-> TRUE, err |-> "", cred |-> id_cred_received]

\* credential_check_or_fetch, were it to compare a full credential by its
\* kid as it does a compact kid
credential_check_or_fetch_by_kid(cred_expected, id_cred_received) ==
    IF cred_expected.some
    THEN IF id_cred_received.kid = cred_expected.v.kid
         THEN [ok |-> TRUE, err |-> "", cred |-> cred_expected.v]
         ELSE PErr("UnknownPeer")
    ELSE IF reference_only(id_cred_received) THEN PErr("panic")
    ELSE [ok |-> TRUE, err |-> "", cred |-> id_cred_received]

credential_check_or_fetch(cred_expected, id_cred_received) ==
    IF cred_expected.some
    THEN LET credentials_match ==
                 IF reference_only(id_cred_received)
                 THEN id_cred_received.kid = cred_expected.v.kid
                 ELSE id_cred_received.value = cred_expected.v.value
         IN  IF credentials_match THEN [ok |-> TRUE, err |-> "", cred |-> cred_expected.v]
             ELSE PErr("UnknownPeer")
    ELSE IF reference_only(id_cred_received) THEN PErr("panic")
    ELSE [ok |-> TRUE, err |-> "", cred |-> id_cred_received]

\* the condition of the while loop of generate_connection_identifier, were
\* it to bound conn_id from above only
conn_id_rejected_above(conn_id) == conn_id > 23

\* the condition of the loop, were it to test the lower end only
conn_id_rejected_below(conn_id) == conn_id < -24

\* the condition of the while loop of generate_connection_identifier: conn_id
\* is not taken and another byte is drawn
conn_id_rejected(conn_id) == conn_id < -24 \/ conn_id > 23

\* generate_connection_identifier_cbor, were it to encode a negative
\* identifier from CBOR_NEG_INT_1BYTE_START on
generate_connection_identifier_cbor_from_start(conn_id) ==
    IF conn_id >= 0 /\ conn_id <= 23 THEN conn_id
    ELSE IF conn_id < 0 /\ conn_id >= -24 THEN CBOR_NEG_INT_1BYTE_START + (-conn_id)
    ELSE 0

\* conn_id is the i8 the rejection loop of generate_connection_identifier ends with
generate_connection_identifier_cbor(conn_id) ==
    IF conn_id >= 0 /\ conn_id <= 23 THEN conn_id
    ELSE IF conn_id < 0 /\ conn_id >= -24 THEN CBOR_NEG_INT_1BYTE_START - 1 + (-conn_id)
    ELSE 0

----------------------------------------------------------------------------
(* lib.rs: the typestate API.  A role object is [type, state, ...]; every  *)
(* transition takes self by value, so the call leaves the caller with the  *)
(* object it returns, or with nothing (Moved) when it returns Err or       *)
(* panics.  A call that fails returns the table it was given: none of its  *)
(* outputs survives it.                                                    *)

Moved == [type |-> "moved"]

\* the fields of the state structs that follow the derivation of PRK_3e2m
WaitM3 == {"y", "prk_3e2m", "th_3"}
ProcessedM2 == {"prk_3e2m", "prk_4e3m", "th_3"}
ProcessingM3 == {"mac_3", "y", "prk_3e2m", "th_3", "plaintext_3", "ead_3"}
Completed == {"prk_out", "prk_exporter"}

Err(o, e) == [ok |-> FALSE, err |-> e, o |-> o, self |-> Moved]

EdhocResponder_new(o, r, cred_r) ==
    IF Len(r) # P256_ELEM_LEN THEN Err(o, "panic")
    ELSE The({ [ok |-> TRUE, err |-> "", o |-> k.o,
                self |-> [type |-> "EdhocResponder", state |-> [y |-> k.sk, g_y |-> k.pk],
                          r |-> r, cred_r |-> cred_r]]
             : k \in {p256_generate_key_pair(o)} })

process_message_1(o, self, message_1, tape) ==
    The({ IF ~res_.ok THEN Err(o, res_.err)
          ELSE [ok |-> TRUE, err |-> "", o |-> res_.o,
                self |-> [type |-> "EdhocResponderProcessedM1", state |-> res_.state,
                          r |-> self.r, cred_r |-> self.cred_r],
                ead_1 |-> res_.ead_1]
        : res_ \in {r_process_message_1(o, self.state, message_1, tape)} })

\* conn_id: what generate_connection_identifier draws when c_r is None
prepare_message_2(o, self, cred_transfer, c_r, conn_id, ead_2) ==
    IF Len(self.r) # P256_ELEM_LEN THEN Err(o, "panic")
    ELSE
    The({ IF ~res_.ok THEN Err(o, res_.err)
          ELSE [ok |-> TRUE, err |-> "", o |-> res_.o,
                self |-> [type |-> "EdhocResponderWaitM3", state |-> res_.state],
                message_2 |-> res_.message_2]
        : res_ \in {r_prepare_message_2(
                        o, self.state, self.cred_r, self.r,
                        IF c_r.some THEN c_r.v
                        ELSE generate_connection_identifier_cbor(conn_id),
                        cred_transfer, ead_2)} })

\* parse_message_3, were it to return UnknownError for every Err of
\* r_parse_message_3
parse_message_3_unknown_error(o, self, message_3, tape) ==
    The({ IF ~res_.ok THEN Err(o, "UnknownError")
          ELSE [ok |-> TRUE, err |-> "", o |-> res_.o,
                self |-> [type |-> "EdhocResponderProcessingM3", state |-> res_.state],
                id_cred_i |-> res_.id_cred_i, ead_3 |-> res_.ead_3]
        : res_ \in {r_parse_message_3(o, self.state, message_3, tape)} })

parse_message_3(o, self, message_3, tape) ==
    The({ IF ~res_.ok THEN Err(o, res_.err)
          ELSE [ok |-> TRUE, err |-> "", o |-> res_.o,
                self |-> [type |-> "EdhocResponderProcessingM3", state |-> res_.state],
                id_cred_i |-> res_.id_cred_i, ead_3 |-> res_.ead_3]
        : res_ \in {r_parse_message_3(o, self.state, message_3, tape)} })

\* verify_message_3, were the Done object to carry y along
verify_message_3_keeping_y(o, self, cred_i) ==
    The({ IF ~res_.ok THEN Err(o, res_.err)
          ELSE [ok |-> TRUE, err |-> "", o |-> res_.o,
                self |-> [type |-> "EdhocResponderDone",
                          state |-> [prk_out |-> res_.state.prk_out,
                                     prk_exporter |-> res_.state.prk_exporter,
                                     y |-> self.state.y]],
                prk_out |-> res_.prk_out]
        : res_ \in {r_verify_message_3(o, self.state, cred_i)} })

verify_message_3(o, self, cred_i) ==
    The({ IF ~res_.ok THEN Err(o, res_.err)
          ELSE [ok |-> TRUE, err |-> "", o |-> res_.o,
                self |-> [type |-> "EdhocResponderDone", state |-> res_.state],
                prk_out |-> res_.prk_out]
        : res_ \in {r_verify_message_3(o, self.state, cred_i)} })

EdhocInitiator_new(o) ==
    The({ [ok |-> TRUE, err |-> "", o |-> k.o,
           self |-> [type |-> "EdhocInitiator",
                     state |-> [x |-> k.sk, g_x |-> k.pk,
                                suites_i |-> [Zeros(SUITES_LEN)
                                              EXCEPT ![1] = EDHOC_SUPPORTED_SUITES[1]],
                                suites_i_len |-> 1]]]
        : k \in {p256_generate_key_pair(o)} })

\* prepare_message_1, were it to take &self and leave the caller its object
prepare_message_1_borrowing(o, self, c_i, conn_id, ead_1) ==
    The({ IF ~res_.ok THEN Err(o, res_.err)
          ELSE [ok |-> TRUE, err |-> "", o |-> res_.o,
                self |-> self,
                message_1 |-> res_.message_1]
        : res_ \in {i_prepare_message_1(
                        o, self.state,
                        IF c_i.some THEN c_i.v
                        ELSE generate_connection_identifier_cbor(conn_id),
                        ead_1)} })

prepare_message_1(o, self, c_i, conn_id, ead_1) ==
    The({ IF ~res_.ok THEN Err(o, res_.err)
          ELSE [ok |-> TRUE, err |-> "", o |-> res_.o,
                self |-> [type |-> "EdhocInitiatorWaitM2", state |-> res_.state],
                message_1 |-> res_.message_1]
        : res_ \in {i_prepare_message_1(
                        o, self.state,
                        IF c_i.some THEN c_i.v
                        ELSE generate_connection_identifier_cbor(conn_id),
                        ead_1)} })

selected_cipher_suite(self) == self.state.suites_i[self.state.suites_i_len]

\* parse_message_2, were it to leave the caller its object when it fails
EdhocInitiatorWaitM2_parse_message_2_keeping(o, self, message_2, tape) ==
    The({ IF ~res_.ok THEN [ok |-> FALSE, err |-> res_.err, o |-> o, self |-> self,
                            fixed |-> res_.fixed]
          ELSE [ok |-> TRUE, err |-> "", o |-> res_.o, fixed |-> res_.fixed,
                self |-> [type |-> "EdhocInitiatorProcessingM2", state |-> res_.state],
                c_r |-> res_.c_r, id_cred_r |-> res_.id_cred_r, ead_2 |-> res_.ead_2]
        : res_ \in {i_parse_message_2(o, self.state, message_2, tape)} })

EdhocInitiatorWaitM2_parse_message_2(o, self, message_2, tape) ==
    The({ IF ~res_.ok THEN [ok |-> FALSE, err |-> res_.err, o |-> o, self |-> Moved,
                            fixed |-> res_.fixed]
          ELSE [ok |-> TRUE, err |-> "", o |-> res_.o, fixed |-> res_.fixed,
                self |-> [type |-> "EdhocInitiatorProcessingM2", state |-> res_.state],
                c_r |-> res_.c_r, id_cred_r |-> res_.id_cred_r, ead_2 |-> res_.ead_2]
        : res_ \in {i_parse_message_2(o, self.state, message_2, tape)} })

\* verify_message_2, were it to go on to ProcessedM2 whatever
\* i_verify_message_2 returns
verify_message_2_unchecked(o, self, i, cred_i, valid_cred_r) ==
    The({ [ok |-> TRUE, err |-> "", o |-> res_.o,
           self |-> [type |-> "EdhocInitiatorProcessedM2",
                     state |-> IF res_.ok THEN res_.state
                               ELSE [prk_3e2m |-> Zeros(SHA256_DIGEST_LEN),
                                     prk_4e3m |-> Zeros(SHA256_DIGEST_LEN),
                                     th_3 |-> Zeros(SHA256_DIGEST_LEN)],
                     cred_i |-> cred_i]]
        : res_ \in {i_verify_message_2(o, self.state, valid_cred_r, i)} })

verify_message_2(o, self, i, cred_i, valid_cred_r) ==
    IF Len(i) # P256_ELEM_LEN THEN Err(o, "panic")
    ELSE
    The({ IF ~res_.ok THEN Err(o, res_.err)
          ELSE [ok |-> TRUE, err |-> "", o |-> res_.o,
                self |-> [type |-> "EdhocInitiatorProcessedM2", state |-> res_.state,
                          cred_i |-> cred_i]]
        : res_ \in {i_verify_message_2(o, self.state, valid_cred_r, i)} })

prepare_message_3(o, self, cred_transfer, ead_3) ==
    The({ IF ~res_.ok THEN Err(o, res_.err)
          ELSE [ok |-> TRUE, err |-> "", o |-> res_.o,
                self |-> [type |-> "EdhocInitiatorDone", state |-> res_.state],
                message_3 |-> res_.message_3, prk_out |-> res_.prk_out]
        : res_ \in {i_prepare_message_3(o, self.state, self.cred_i, cred_transfer,
                                        ead_3)} })

\* the Initiator's edhoc_exporter, were it to derive from PRK_out
EdhocInitiatorDone_edhoc_exporter_from_prk_out(o, self, label, context, length) ==
    IF Len(context) > MAX_KDF_CONTEXT_LEN THEN [ok |-> FALSE, err |-> "panic", o |-> o]
    ELSE The({ [ok |-> TRUE, err |-> "", o |-> r.o, out |-> r.v]
             : r \in {edhoc_exporter(o, [self.state EXCEPT !.prk_exporter = self.state.prk_out],
                                     label,
                                     context \o Zeros(MAX_KDF_CONTEXT_LEN - Len(context)),
                                     Len(context), length)} })

\* context_buf[..context.len()].copy_from_slice(context), then the exporter;
\* the Done object is borrowed, not moved
EdhocInitiatorDone_edhoc_exporter(o, self, label, context, length) ==
    IF Len(context) > MAX_KDF_CONTEXT_LEN THEN [ok |-> FALSE, err |-> "panic", o |-> o]
    ELSE The({ [ok |-> TRUE, err |-> "", o |-> r.o, out |-> r.v]
             : r \in {edhoc_exporter(o, self.state, label,
                                     context \o Zeros(MAX_KDF_CONTEXT_LEN - Len(context)),
                                     Len(context), length)} })

\* the Responder's edhoc_exporter, were it to pass on another label
EdhocResponderDone_edhoc_exporter_relabelled(o, self, label, context, length) ==
    IF Len(context) > MAX_KDF_CONTEXT_LEN THEN [ok |-> FALSE, err |-> "panic", o |-> o]
    ELSE The({ [ok |-> TRUE, err |-> "", o |-> r.o, out |-> r.v]
             : r \in {edhoc_exporter(o, self.state, label + 1,
                                     context \o Zeros(MAX_KDF_CONTEXT_LEN - Len(context)),
                                     Len(context), length)} })

EdhocResponderDone_edhoc_exporter(o, self, label, context, length) ==
    IF Len(context) > MAX_KDF_CONTEXT_LEN THEN [ok |-> FALSE, err |-> "panic", o |-> o]
    ELSE The({ [ok |-> TRUE, err |-> "", o |-> r.o, out |-> r.v]
             : r \in {edhoc_exporter(o, self.state, label,
                                     context \o Zeros(MAX_KDF_CONTEXT_LEN - Len(context)),
                                     Len(context), length)} })

\* context_buf[..context.len()].copy_from_slice(context), then the update of
\* the state through &mut self
EdhocInitiatorDone_edhoc_key_update(o, self, context) ==
    IF Len(context) > MAX_KDF_CONTEXT_LEN THEN Err(o, "panic")
    ELSE The({ [ok |-> TRUE, err |-> "", o |-> r.o,
                self |-> [self EXCEPT !.state = r.state], prk_out |-> r.prk_out]
             : r \in {edhoc_key_update(o, self.state,
                                       context \o Zeros(MAX_KDF_CONTEXT_LEN - Len(context)),
                                       Len(context))} })

\* the Responder's edhoc_key_update, were it to leave the context out
EdhocResponderDone_edhoc_key_update_without_context(o, self, context) ==
    IF Len(context) > MAX_KDF_CONTEXT_LEN THEN Err(o, "panic")
    ELSE The({ [ok |-> TRUE, err |-> "", o |-> r.o,
                self |-> [self EXCEPT !.state = r.state], prk_out |-> r.prk_out]
             : r \in {edhoc_key_update(o, self.state, Zeros(MAX_KDF_CONTEXT_LEN), 0)} })

EdhocResponderDone_edhoc_key_update(o, self, context) ==
    IF Len(context) > MAX_KDF_CONTEXT_LEN THEN Err(o, "panic")
    ELSE The({ [ok |-> TRUE, err |-> "", o |-> r.o,
                self |-> [self EXCEPT !.state = r.state], prk_out |-> r.prk_out]
             : r \in {edhoc_key_update(o, self.state,
                                       context \o Zeros(MAX_KDF_CONTEXT_LEN - Len(context)),
                                       Len(context))} })

----------------------------------------------------------------------------
(* The system: a harness that runs handshakes one after another, in the    *)
(* order of test_handshake: it creates the Initiator, then the Responder,  *)
(* passes each message from one to the other, and when both are Done asks  *)
(* each for one exporter output.  ini and res hold the role object and its *)
(* caller's locals, net the three messages.  The network may invert one    *)
(* bit of one delivery of message_2 or message_3 in a handshake.  When a   *)
(* handshake has ended, in an error or in the two exports, the harness     *)
(* drops both objects and starts the next one with the two parties' roles  *)
(* exchanged.                                                              *)

MaxSessions == 2

NoObject == [type |-> "none"]

CRED_I_RPK == CredentialRPK_new(Buf(CRED_I)).cred
CRED_R_RPK == CredentialRPK_new(Buf(CRED_R)).cred

\* who initiates and who responds in a handshake
Parties(session) ==
    IF session % 2 = 1
    THEN [i |-> I, cred_i |-> CRED_I_RPK, r |-> R, cred_r |-> CRED_R_RPK]
    ELSE [i |-> R, cred_i |-> CRED_R_RPK, r |-> I, cred_r |-> CRED_I_RPK]

CredentialTransfer == {"ByReference", "ByValue"}

\* what the inspected bytes of a pseudo-random plaintext may be
Tapes == {<<>>, <<0, 10, 72>>}

\* Some(c), or None with the identifier the generator draws
ConnIdInputs == {[c |-> Some(55), conn_id |-> 0], [c |-> None, conn_id |-> -24]}

ExporterInputs ==
    {[label |-> 0, context |-> <<>>, length |-> 16],
     [label |-> 1, context |-> <<>>, length |-> 8],
     [label |-> 0, context |-> <<160>>, length |-> 32],
     [label |-> 1, context |-> Zeros(MAX_KDF_CONTEXT_LEN + 1), length |-> 8]}

\* key: the ephemeral public key the object was created with;
\* updates: the edhoc_key_update calls made on the Done object, each with
\* its context, the state before it and what it returned
IniInit == [obj |-> NoObject, key |-> None, trace |-> <<>>, got |-> "", err |-> "",
            id_cred_r |-> None, expected |-> "", valid_cred_r |-> None,
            mac |-> "", prk_out |-> None, updates |-> <<>>, exported |-> None]

ResInit == [obj |-> NoObject, key |-> None, trace |-> <<>>, got |-> "", err |-> "",
            cred_transfer |-> "", id_cred_i |-> None, expected |-> "", valid_cred_i |-> None,
            mac |-> "", prk_out |-> None, updates |-> <<>>, exported |-> None]

\* old: the ephemeral public keys of the earlier handshakes' objects;
\* failed: the handshake before this one ended with an error;
\* crafted: the parts of a message_1 put together for the Responder alone
NetInit(session, old, failed) ==
    [session |-> session, old |-> old, failed |-> failed, flipped |-> FALSE,
     crafted |-> None,
     message_1 |-> None, message_2 |-> None, message_3 |-> None]

Returned(role, op, err) == [role |-> role, op |-> op, err |-> err]

Init ==
    /\ orc = <<>>
    /\ ini = IniInit
    /\ res = ResInit
    /\ net = NetInit(1, {}, FALSE)
    /\ ret = Returned("", "", "")

\* The deliveries of a message: intact, or (once in a handshake) with bit k
\* inverted.
Tamper(msg, k) == [msg EXCEPT !.content[(k \div 8) + 1] = FlipBit(@, k % 8)]

Deliveries(msg) ==
    {[message |-> msg, got |-> "intact"]}
    \cup (IF net.flipped THEN {}
          ELSE {[message |-> Tamper(msg, k), got |-> "flipped"] : k \in 0..(msg.len * 8 - 1)})

\* MAC_2 as PRK_3e2m, ID_CRED_R, TH_2 and valid_cred_r give it, and MAC_3
\* likewise: what the verification is to compare the received MAC with.
RecomputedMac2(o, state, valid_cred_r) ==
    The({ The({
          compute_mac_2(prk_3e2m.o, prk_3e2m.v, get_id_cred(valid_cred_r),
                        as_slice(valid_cred_r.value), state.th_2, state.ead_2).v
        : prk_3e2m \in {compute_prk_3e2m(salt_3e2m.o, salt_3e2m.v, state.x,
                                         valid_cred_r.public_key)} })
        : salt_3e2m \in {compute_salt_3e2m(o, state.prk_2e, state.th_2)} })

RecomputedMac3(o, state, valid_cred_i) ==
    The({ The({
          compute_mac_3(prk_4e3m.o, prk_4e3m.v, state.th_3, get_id_cred(valid_cred_i),
                        as_slice(valid_cred_i.value), state.ead_3).v
        : prk_4e3m \in {compute_prk_4e3m(salt_4e3m.o, salt_4e3m.v, state.y,
                                         valid_cred_i.public_key)} })
        : salt_4e3m \in {compute_salt_4e3m(o, state.prk_3e2m, state.th_3)} })

INew ==
    /\ ini.obj.type = "none"
    /\ \E r \in {EdhocInitiator_new(orc)} :
       /\ orc' = r.o
       /\ ini' = [ini EXCEPT !.obj = r.self, !.key = Some(r.self.state.g_x),
                             !.trace = <<"new">>]
       /\ ret' = Returned("I", "new", r.err)
    /\ UNCHANGED <<res, net>>

IPrepareMessage1 ==
    /\ ini.obj.type = "EdhocInitiator"
    /\ res.obj.type = "EdhocResponder"
    /\ \E c \in ConnIdInputs :
         \E r \in {prepare_message_1(orc, ini.obj, c.c, c.conn_id, None)} :
         /\ orc' = r.o
         /\ ini' = [ini EXCEPT !.obj = r.self, !.trace = Append(@, "prepare_message_1"),
                               !.err = r.err]
         /\ net' = IF r.ok THEN [net EXCEPT !.message_1 = Some(r.message_1)] ELSE net
         /\ ret' = Returned("I", "prepare_message_1", r.err)
    /\ UNCHANGED res

IParseMessage2 ==
    /\ ini.obj.type = "EdhocInitiatorWaitM2"
    /\ net.message_2.some
    /\ \E d \in Deliveries(net.message_2.v) :
         \E r0 \in {EdhocInitiatorWaitM2_parse_message_2(orc, ini.obj, d.message, <<>>)} :
         \E tape \in IF r0.fixed THEN Tapes ELSE {<<>>} :
         \E r \in {IF tape = <<>> THEN r0
                   ELSE EdhocInitiatorWaitM2_parse_message_2(orc, ini.obj, d.message, tape)} :
         /\ orc' = r.o
         /\ ini' = [ini EXCEPT !.obj = r.self, !.trace = Append(@, "parse_message_2"),
                               !.got = d.got, !.err = r.err,
                               !.id_cred_r = IF r.ok THEN Some(r.id_cred_r) ELSE None]
         /\ net' = [net EXCEPT !.flipped = @ \/ d.got = "flipped"]
         /\ ret' = Returned("I", "parse_message_2", r.err)
    /\ UNCHANGED res

\* The caller resolves ID_CRED_R: against the credential it expects, or
\* against none; or it does not call credential_check_or_fetch and takes
\* another credential (its own) as valid_cred_r.
ICredentialCheck ==
    /\ ini.obj.type = "EdhocInitiatorProcessingM2"
    /\ ini.expected = ""
    /\ \/ \E expected \in {Some(Parties(net.session).cred_r), None} :
            \E r \in {credential_check_or_fetch(expected, ini.id_cred_r.v)} :
            /\ ini' = [ini EXCEPT !.expected = IF expected.some THEN "some" ELSE "none",
                                  !.valid_cred_r = IF r.ok THEN Some(r.cred) ELSE None,
                                  !.err = r.err,
                                  !.obj = IF r.err = "panic" THEN Moved ELSE @]
            /\ ret' = Returned("I", "credential_check_or_fetch", r.err)
       \/ /\ ini' = [ini EXCEPT !.expected = "other",
                                  !.valid_cred_r = Some(Parties(net.session).cred_i)]
          /\ ret' = Returned("I", "", "")
    /\ UNCHANGED <<orc, res, net>>

IVerifyMessage2 ==
    /\ ini.obj.type = "EdhocInitiatorProcessingM2"
    /\ ini.valid_cred_r.some
    /\ \E r \in {verify_message_2(orc, ini.obj, Parties(net.session).i,
                                  Parties(net.session).cred_i, ini.valid_cred_r.v)},
          expected_mac_2 \in {RecomputedMac2(orc, ini.obj.state, ini.valid_cred_r.v)} :
       /\ orc' = r.o
       /\ ini' = [ini EXCEPT !.obj = r.self, !.trace = Append(@, "verify_message_2"),
                             !.err = r.err,
                             !.mac = IF ini.obj.state.mac_2 = expected_mac_2 THEN "match"
                                     ELSE "mismatch"]
       /\ ret' = Returned("I", "verify_message_2", r.err)
    /\ UNCHANGED <<res, net>>

IPrepareMessage3 ==
    /\ ini.obj.type = "EdhocInitiatorProcessedM2"
    /\ \E cred_transfer \in CredentialTransfer :
         \E r \in {prepare_message_3(orc, ini.obj, cred_transfer, None)} :
         /\ orc' = r.o
         /\ ini' = [ini EXCEPT !.obj = r.self, !.trace = Append(@, "prepare_message_3"),
                               !.err = r.err,
                               !.prk_out = IF r.ok THEN Some(r.prk_out) ELSE None]
         /\ net' = IF r.ok THEN [net EXCEPT !.message_3 = Some(r.message_3)] ELSE net
         /\ ret' = Returned("I", "prepare_message_3", r.err)
    /\ UNCHANGED res

IExporter ==
    /\ ini.obj.type = "EdhocInitiatorDone"
    /\ res.obj.type = "EdhocResponderDone"
    /\ ~ini.exported.some
    /\ \E a \in ExporterInputs :
         \E r \in {EdhocInitiatorDone_edhoc_exporter(orc, ini.obj, a.label, a.context,
                                                     a.length)} :
         /\ orc' = r.o
         /\ ini' = [ini EXCEPT !.exported = Some([args |-> a, err |-> r.err,
                                                 out |-> IF r.ok THEN r.out ELSE <<>>])]
         /\ ret' = Returned("I", "edhoc_exporter", r.err)
    /\ UNCHANGED <<res, net>>

RNew ==
    /\ res.obj.type = "none"
    /\ ini.obj.type = "EdhocInitiator"
    /\ \E r \in {EdhocResponder_new(orc, Parties(net.session).r,
                                    Parties(net.session).cred_r)} :
       /\ orc' = r.o
       /\ res' = [res EXCEPT !.obj = r.self, !.key = Some(r.self.state.g_y),
                             !.trace = <<"new">>]
       /\ ret' = Returned("R", "new", r.err)
    /\ UNCHANGED <<ini, net>>

RProcessMessage1 ==
    /\ res.obj.type = "EdhocResponder"
    /\ net.message_1.some
    /\ \E r \in {process_message_1(orc, res.obj, net.message_1.v, <<>>)} :
       /\ orc' = r.o
       /\ res' = [res EXCEPT !.obj = r.self, !.trace = Append(@, "process_message_1"),
                             !.err = r.err]
       /\ ret' = Returned("R", "process_message_1", r.err)
    /\ UNCHANGED <<ini, net>>

RPrepareMessage2 ==
    /\ res.obj.type = "EdhocResponderProcessedM1"
    /\ \E cred_transfer \in CredentialTransfer :
         \E r \in {prepare_message_2(orc, res.obj, cred_transfer, Some(39), 0, None)} :
         /\ orc' = r.o
         /\ res' = [res EXCEPT !.obj = r.self, !.trace = Append(@, "prepare_message_2"),
                               !.err = r.err, !.cred_transfer = cred_transfer]
         /\ net' = IF r.ok THEN [net EXCEPT !.message_2 = Some(r.message_2)] ELSE net
         /\ ret' = Returned("R", "prepare_message_2", r.err)
    /\ UNCHANGED ini

RParseMessage3 ==
    /\ res.obj.type = "EdhocResponderWaitM3"
    /\ net.message_3.some
    /\ \E d \in Deliveries(net.message_3.v) :
         \E r \in {parse_message_3(orc, res.obj, d.message, <<>>)} :
         /\ orc' = r.o
         /\ res' = [res EXCEPT !.obj = r.self, !.trace = Append(@, "parse_message_3"),
                               !.got = d.got, !.err = r.err,
                               !.id_cred_i = IF r.ok THEN Some(r.id_cred_i) ELSE None]
         /\ net' = [net EXCEPT !.flipped = @ \/ d.got = "flipped"]
         /\ ret' = Returned("R", "parse_message_3", r.err)
    /\ UNCHANGED ini

RCredentialCheck ==
    /\ res.obj.type = "EdhocResponderProcessingM3"
    /\ res.expected = ""
    /\ \/ \E expected \in {Some(Parties(net.session).cred_i), None} :
            \E r \in {credential_check_or_fetch(expected, res.id_cred_i.v)} :
            /\ res' = [res EXCEPT !.expected = IF expected.some THEN "some" ELSE "none",
                                  !.valid_cred_i = IF r.ok THEN Some(r.cred) ELSE None,
                                  !.err = r.err,
                                  !.obj = IF r.err = "panic" THEN Moved ELSE @]
            /\ ret' = Returned("R", "credential_check_or_fetch", r.err)
       \/ /\ res' = [res EXCEPT !.expected = "other",
                                  !.valid_cred_i = Some(Parties(net.session).cred_r)]
          /\ ret' = Returned("R", "", "")
    /\ UNCHANGED <<orc, ini, net>>

RVerifyMessage3 ==
    /\ res.obj.type = "EdhocResponderProcessingM3"
    /\ res.valid_cred_i.some
    /\ \E r \in {verify_message_3(orc, res.obj, res.valid_cred_i.v)},
          expected_mac_3 \in {RecomputedMac3(orc, res.obj.state, res.valid_cred_i.v)} :
       /\ orc' = r.o
       /\ res' = [res EXCEPT !.obj = r.self, !.trace = Append(@, "verify_message_3"),
                             !.err = r.err,
                             !.mac = IF res.obj.state.mac_3 = expected_mac_3 THEN "match"
                                     ELSE "mismatch",
                             !.prk_out = IF r.ok THEN Some(r.prk_out) ELSE None]
       /\ ret' = Returned("R", "verify_message_3", r.err)
    /\ UNCHANGED <<ini, net>>

RExporter ==
    /\ res.obj.type = "EdhocResponderDone"
    /\ ini.exported.some
    /\ ~res.exported.some
    /\ \E a \in ExporterInputs :
         \E r \in {EdhocResponderDone_edhoc_exporter(orc, res.obj, a.label, a.context,
                                                     a.length)} :
         /\ orc' = r.o
         /\ res' = [res EXCEPT !.exported = Some([args |-> a, err |-> r.err,
                                                 out |-> IF r.ok THEN r.out ELSE <<>>])]
         /\ ret' = Returned("R", "edhoc_exporter", r.err)
    /\ UNCHANGED <<ini, net>>

\* The handshake has ended: the harness drops both role objects and starts
\* the next handshake.  Of the backend only the random source's past draws
\* (the two key pairs of each handshake so far, its first four entries)
\* outlive the objects.
Restart ==
    /\ net.session < MaxSessions
    /\ ret.err # "" \/ res.exported.some
    /\ orc' = SubSeq(orc, 1, 4 * net.session)
    /\ ini' = IniInit
    /\ res' = ResInit
    /\ net' = NetInit(net.session + 1, net.old \cup {ini.key.v, res.key.v},
                    ret.err # "")
    /\ ret' = Returned("", "", "")

Next ==
    \/ INew \/ IPrepareMessage1 \/ IParseMessage2 \/ ICredentialCheck
    \/ IVerifyMessage2 \/ IPrepareMessage3 \/ IExporter
    \/ RNew \/ RProcessMessage1 \/ RPrepareMessage2 \/ RParseMessage3
    \/ RCredentialCheck \/ RVerifyMessage3 \/ RExporter
    \/ Restart

Spec == Init /\ [][Next]_vars

----------------------------------------------------------------------------
(* The Responder alone, as in test_process_message_1: a new Responder is   *)
(* given one message_1.  The message is put together from its parts, so    *)
(* that what the Responder returns can be set against them.                *)

\* an unsigned integer below 256, as CBOR
U8Enc(v) == IF v < CBOR_UINT_1BYTE THEN <<v>> ELSE <<CBOR_UINT_1BYTE, v>>

RECURSIVE U8SeqEnc(_)
U8SeqEnc(vs) == IF vs = <<>> THEN <<>> ELSE U8Enc(Head(vs)) \o U8SeqEnc(Tail(vs))

\* form: "int" (the one suite, bare), "array" (count in the head byte),
\* "array24" (count in the byte after the head), "raw" (the bytes as given)
SuitesEnc(form, suites) ==
    IF form = "int" THEN U8Enc(suites[1])
    ELSE IF form = "array" THEN <<CBOR_MAJOR_ARRAY + Len(suites)>> \o U8SeqEnc(suites)
    ELSE IF form = "array24"
         THEN <<CBOR_MAJOR_ARRAY + CBOR_UINT_1BYTE, Len(suites)>> \o U8SeqEnc(suites)
    ELSE suites

Craft(c) ==
    U8Enc(c.method) \o SuitesEnc(c.form, c.suites)
    \o <<CBOR_BYTE_STRING, Len(c.g_x)>> \o c.g_x \o <<c.c_i>> \o c.ead

G_X_TV == SubSeq(MESSAGE_1_TV, 7, 38)
G_X_TV_FIRST_TIME == SubSeq(MESSAGE_1_TV_FIRST_TIME, 5, 36)

CraftedMethods == {3, 0, 2, 23, 24, 200}

CraftedSuites ==
    {[form |-> "int", suites |-> <<v>>] : v \in {2, 6, 0, 23, 24, 255}}
    \cup {[form |-> f, suites |-> s] :
            f \in {"array", "array24"},
            s \in {<<6, 2>>, <<2, 6>>, <<255, 2>>, <<2, 2>>, <<24, 25, 2>>,
                   <<0, 1, 3, 4, 5, 6, 24, 25, 2>>, <<2, 1, 3, 4, 5, 2, 24, 25, 6>>,
                   <<0, 1, 3, 4, 5, 6, 24, 25, 2, 2>>, <<2>>, <<6>>, <<>>}}
    \cup {[form |-> "raw", suites |-> s] :
            s \in {<<55>>, <<130, 55, 2>>, <<25, 1, 0>>, <<64>>, <<159, 6, 2, 255>>}}

CraftedG_X == {G_X_TV, G_X_TV_FIRST_TIME, SubSeq(G_X_TV, 1, 31)}

CraftedC_I == {55, 14, 0, 23, 32, 24, 56, 64}

CraftedEad == {<<>>, <<1>>, <<32, 65, 7>>, <<24>>}

CraftedInputs ==
    {[method |-> m, form |-> s.form, suites |-> s.suites, g_x |-> g, c_i |-> c,
      ead |-> e] :
        m \in CraftedMethods, s \in CraftedSuites, g \in CraftedG_X,
        c \in CraftedC_I, e \in CraftedEad}

M1New ==
    /\ res.obj.type = "none"
    /\ \E r \in {EdhocResponder_new(orc, R, CRED_R_RPK)} :
       /\ orc' = r.o
       /\ res' = [res EXCEPT !.obj = r.self, !.key = Some(r.self.state.g_y),
                             !.trace = <<"new">>]
       /\ ret' = Returned("R", "new", r.err)
    /\ UNCHANGED <<ini, net>>

M1Process ==
    /\ res.obj.type = "EdhocResponder"
    /\ \E c \in CraftedInputs :
       \E r \in {process_message_1(orc, res.obj, from_hex(Craft(c)), <<>>)} :
          /\ orc' = r.o
          /\ res' = [res EXCEPT !.obj = r.self,
                                !.trace = Append(@, "process_message_1"),
                                !.err = r.err]
          /\ net' = [net EXCEPT !.crafted = Some(c),
                                !.message_1 = Some(from_hex(Craft(c)))]
          /\ ret' = Returned("R", "process_message_1", r.err)
    /\ UNCHANGED ini

NextM1 == M1New \/ M1Process

SpecM1 == Init /\ [][NextM1]_vars

----------------------------------------------------------------------------
(* The Done objects of a completed handshake, as test_handshake goes on    *)
(* with them: edhoc_key_update on either side, any number of times, and    *)
(* edhoc_exporter.  The handshake before it is the one of Spec with every  *)
(* message delivered as sent and no call returning an error.               *)

\* the most edhoc_key_update calls on one Done object
MaxUpdates == 2

\* the context of test_handshake, the empty one and one that is longer than
\* BytesMaxContextBuffer
KeyUpdateContexts ==
    {<<160, 17, 88, 253, 184, 32, 137, 12, 214, 190, 22, 150, 2, 184, 188, 234>>,
     <<>>,
     Zeros(MAX_KDF_CONTEXT_LEN + 1)}

Handshake ==
    \/ INew \/ IPrepareMessage1 \/ IParseMessage2 \/ ICredentialCheck
    \/ IVerifyMessage2 \/ IPrepareMessage3
    \/ RNew \/ RProcessMessage1 \/ RPrepareMessage2 \/ RParseMessage3
    \/ RCredentialCheck \/ RVerifyMessage3

HonestStep == Handshake /\ ~net'.flipped /\ ret'.err = ""

\* what a call of edhoc_key_update leaves in updates
Updated(context, self, r) ==
    [context |-> context, before |-> self.state, ok |-> r.ok,
     after |-> IF r.ok THEN r.self.state ELSE self.state,
     prk_out |-> IF r.ok THEN r.prk_out ELSE <<>>]

IKeyUpdate ==
    /\ ini.obj.type = "EdhocInitiatorDone"
    /\ res.obj.type \in {"EdhocResponderDone", "moved"}
    /\ ~ini.exported.some
    /\ Len(ini.updates) < MaxUpdates
    /\ \E context \in KeyUpdateContexts :
         \E r \in {EdhocInitiatorDone_edhoc_key_update(orc, ini.obj, context)} :
         /\ orc' = r.o
         /\ ini' = [ini EXCEPT !.obj = r.self, !.err = r.err,
                               !.updates = Append(@, Updated(context, ini.obj, r)),
                               !.prk_out = IF r.ok THEN Some(r.prk_out) ELSE @]
         /\ ret' = Returned("I", "edhoc_key_update", r.err)
    /\ UNCHANGED <<res, net>>

RKeyUpdate ==
    /\ res.obj.type = "EdhocResponderDone"
    /\ ~res.exported.some
    /\ Len(res.updates) < MaxUpdates
    /\ \E context \in KeyUpdateContexts :
         \E r \in {EdhocResponderDone_edhoc_key_update(orc, res.obj, context)} :
         /\ orc' = r.o
         /\ res' = [res EXCEPT !.obj = r.self, !.err = r.err,
                               !.updates = Append(@, Updated(context, res.obj, r)),
                               !.prk_out = IF r.ok THEN Some(r.prk_out) ELSE @]
         /\ ret' = Returned("R", "edhoc_key_update", r.err)
    /\ UNCHANGED <<ini, net>>

\* the edhoc_exporter calls of test_handshake, made after the updates
UpdatedExporterInputs ==
    {[label |-> 0, context |-> <<>>, length |-> 16],
     [label |-> 1, context |-> <<>>, length |-> 8]}

IExporterUpdated ==
    /\ ini.obj.type = "EdhocInitiatorDone"
    /\ res.obj.type \in {"EdhocResponderDone", "moved"}
    /\ ~ini.exported.some
    /\ \E a \in UpdatedExporterInputs :
         \E r \in {EdhocInitiatorDone_edhoc_exporter(orc, ini.obj, a.label, a.context,
                                                     a.length)} :
         /\ orc' = r.o
         /\ ini' = [ini EXCEPT !.exported = Some([args |-> a, err |-> r.err,
                                                 out |-> IF r.ok THEN r.out ELSE <<>>])]
         /\ ret' = Returned("I", "edhoc_exporter", r.err)
    /\ UNCHANGED <<res, net>>

RExporterUpdated ==
    /\ res.obj.type = "EdhocResponderDone"
    /\ ini.exported.some
    /\ ~res.exported.some
    /\ \E a \in UpdatedExporterInputs :
         \E r \in {EdhocResponderDone_edhoc_exporter(orc, res.obj, a.label, a.context,
                                                     a.length)} :
         /\ orc' = r.o
         /\ res' = [res EXCEPT !.exported = Some([args |-> a, err |-> r.err,
                                                 out |-> IF r.ok THEN r.out ELSE <<>>])]
         /\ ret' = Returned("R", "edhoc_exporter", r.err)
    /\ UNCHANGED <<ini, net>>

NextKU ==
    HonestStep \/ IKeyUpdate \/ RKeyUpdate \/ IExporterUpdated \/ RExporterUpdated

SpecKU == Init /\ [][NextKU]_vars

----------------------------------------------------------------------------
(* credential_check_or_fetch alone: the application calls it with the      *)
(* credential it expects of the peer, or with none, and with the           *)
(* credential that parse_message_2 or parse_message_3 made of the received *)
(* ID_CRED: a compact kid, or a full credential that CredentialRPK::new    *)
(* accepted.                                                               *)

\* CRED_I with the last byte of its public key changed: the kid of CRED_I
\* with another value
CRED_I_REKEYED == [CRED_I EXCEPT ![Len(CRED_I)] = (@ + 1) % 256]

\* the bytes of CRED_R in a buffer that held a longer value before
\* (fill_with_slice leaves the bytes after len as they were)
CRED_R_REFILLED ==
    fill_with_slice(Buf(CRED_R \o <<1>>), CRED_R).buf

\* a kid is one CBOR integer of a single byte
CredKids == (0..23) \cup (32..55)

ExpectedCredentials ==
    {None, Some(CRED_I_RPK), Some(CRED_R_RPK),
     Some(CredentialRPK_new(Buf(CRED_I_REKEYED)).cred),
     Some(CredentialRPK_new(CRED_R_REFILLED).cred)}

ReceivedCompactKids == {[kind |-> "CompactKid", v |-> kid] : kid \in CredKids}

ReceivedFullCredentials ==
    {[kind |-> "FullCredential", v |-> value] : value \in {CRED_I, CRED_R, CRED_I_REKEYED}}

InitCred ==
    /\ orc = <<>>
    /\ ini = IniInit
    /\ res = ResInit
    /\ ret = Returned("", "", "")
    /\ \E cred_expected \in ExpectedCredentials :
          \/ \E id_cred \in ReceivedCompactKids :
                net = [NetInit(1, {}, FALSE) EXCEPT
                          !.crafted = Some([cred_expected |-> cred_expected,
                                            id_cred |-> id_cred])]
          \/ \E id_cred \in ReceivedFullCredentials :
                net = [NetInit(1, {}, FALSE) EXCEPT
                          !.crafted = Some([cred_expected |-> cred_expected,
                                            id_cred |-> id_cred])]

CredCheck ==
    /\ ret.op = ""
    /\ \E received \in {IdCredToCredential(net.crafted.v.id_cred)} :
       /\ received.ok
       /\ \E r \in {credential_check_or_fetch(net.crafted.v.cred_expected, received.cred)} :
          /\ ini' = [ini EXCEPT !.id_cred_r = Some(received.cred),
                                !.expected = IF net.crafted.v.cred_expected.some THEN "some"
                                             ELSE "none",
                                !.valid_cred_r = IF r.ok THEN Some(r.cred) ELSE None,
                                !.err = r.err]
          /\ ret' = Returned("", "credential_check_or_fetch", r.err)
    /\ UNCHANGED <<orc, res, net>>

NextCred == CredCheck

SpecCred == InitCred /\ [][NextCred]_vars

----------------------------------------------------------------------------
(* The handshake with private authentication keys of any length: r is an   *)
(* argument of EdhocResponder::new and i one of verify_message_2, both     *)
(* slices.  Messages are delivered as sent.  A call of new that panics     *)
(* makes no object: a caller that outlives it may call new again.          *)

\* slices that are not P256_ELEM_LEN bytes long: the key without its last
\* byte, the key and one byte more, and the empty slice
WrongLengthKeys(key) ==
    {SubSeq(key, 1, P256_ELEM_LEN - 1), key \o <<0>>, <<>>}

RNewKey ==
    /\ res.obj.type = "none"
    /\ ini.obj.type = "EdhocInitiator"
    /\ \E key \in WrongLengthKeys(Parties(net.session).r) :
       \E r \in {EdhocResponder_new(orc, key, Parties(net.session).cred_r)} :
       /\ orc' = r.o
       /\ res' = [res EXCEPT !.err = r.err]
       /\ net' = [net EXCEPT !.crafted = Some(key)]
       /\ ret' = Returned("R", "new", r.err)
    /\ UNCHANGED ini

IVerifyMessage2Key ==
    /\ ini.obj.type = "EdhocInitiatorProcessingM2"
    /\ ini.valid_cred_r.some
    /\ \E key \in WrongLengthKeys(Parties(net.session).i) :
       \E r \in {verify_message_2(orc, ini.obj, key, Parties(net.session).cred_i,
                                  ini.valid_cred_r.v)} :
       /\ orc' = r.o
       /\ ini' = [ini EXCEPT !.obj = r.self, !.trace = Append(@, "verify_message_2"),
                             !.err = r.err]
       /\ net' = [net EXCEPT !.crafted = Some(key)]
       /\ ret' = Returned("I", "verify_message_2", r.err)
    /\ UNCHANGED res

NextAuth == (Handshake /\ ~net'.flipped) \/ RNewKey \/ IVerifyMessage2Key

SpecAuth == Init /\ [][NextAuth]_vars

----------------------------------------------------------------------------
(* generate_connection_identifier_cbor alone: the loop draws bytes from    *)
(* get_random_byte until one, as i8, is in [-24, 23]; the identifier is    *)
(* encoded in one byte, which a peer decodes with i8 or int_raw.           *)

\* the most bytes drawn from get_random_byte in one call
MaxDraws == 3

\* draws: the bytes drawn so far; conn_id: the local of the loop;
\* c: the byte returned; i8, int_raw: what the decoders make of it
ConnInit ==
    [draws |-> 0, conn_id |-> 0, returned |-> FALSE, c |-> 0,
     decoded |-> FALSE, i8 |-> None, int_raw |-> None]

InitConn ==
    /\ orc = <<>>
    /\ ini = IniInit
    /\ res = ResInit
    /\ net = [NetInit(1, {}, FALSE) EXCEPT !.crafted = Some(ConnInit)]
    /\ ret = Returned("", "", "")

\* conn_id = crypto.get_random_byte() as i8: before the loop, and in it
GetRandomByte ==
    /\ ~net.crafted.v.returned
    /\ net.crafted.v.draws = 0 \/ conn_id_rejected(net.crafted.v.conn_id)
    /\ net.crafted.v.draws < MaxDraws
    /\ \E byte \in 0..255 :
          net' = [net EXCEPT !.crafted.v.draws = @ + 1,
                             !.crafted.v.conn_id = AsI8(byte)]
    /\ ret' = Returned("", "get_random_byte", "")
    /\ UNCHANGED <<orc, ini, res>>

\* the loop ends and generate_connection_identifier_cbor encodes conn_id
ConnReturn ==
    /\ ~net.crafted.v.returned
    /\ net.crafted.v.draws > 0
    /\ ~conn_id_rejected(net.crafted.v.conn_id)
    /\ net' = [net EXCEPT !.crafted.v.returned = TRUE,
                          !.crafted.v.c =
                              generate_connection_identifier_cbor(net.crafted.v.conn_id)]
    /\ ret' = Returned("", "generate_connection_identifier_cbor", "")
    /\ UNCHANGED <<orc, ini, res>>

\* the returned byte, decoded as a peer does
ConnDecode ==
    /\ net.crafted.v.returned
    /\ ~net.crafted.v.decoded
    /\ \E overflow_checks \in BOOLEAN :
          net' = [net EXCEPT
                     !.crafted.v.decoded = TRUE,
                     !.crafted.v.i8 =
                         Some(CBORDecoder_i8(CBORDecoder_new(<<net.crafted.v.c>>),
                                             overflow_checks)),
                     !.crafted.v.int_raw =
                         Some(int_raw(CBORDecoder_new(<<net.crafted.v.c>>)))]
    /\ ret' = Returned("", "i8", "")
    /\ UNCHANGED <<orc, ini, res>>

NextConn == GetRandomByte \/ ConnReturn \/ ConnDecode

SpecConn == InitConn /\ [][NextConn]_vars

----------------------------------------------------------------------------
(* CBORDecoder alone: a decoder over a buffer, and its operations called   *)
(* one after the other, also after one of them returned an error.          *)

\* the longest buffer
MaxBufLen == 3

\* 0x01 and 0x25 (integers of one byte), 0x18 and 0x38 (an integer in
\* the next byte), 0x19 (an integer of two bytes), 0x42 (a byte string of 2),
\* 0x62 (a text string of 2), 0x82 (an array of 2), and 0x58, 0x78, 0x98 (a
\* byte string, a text string, an array with the length in the next byte)
DecoderBytes == {1, 37, 24, 56, 25, 66, 98, 130, 88, 120, 152}

RECURSIVE Buffers(_)
Buffers(n) ==
    IF n = 0 THEN {<<>>}
    ELSE Buffers(n - 1)
         \cup {Append(b, byte) : b \in {x \in Buffers(n - 1) : Len(x) = n - 1},
                                 byte \in DecoderBytes}

\* decoder: the CBORDecoder; position: its position before the call that
\* returned last; result: that call's Result; items: the calls that returned
\* Ok; clean: no call returned an error or panicked
Decoding(d, r) ==
    [decoder |-> r.d, position |-> d.pos, result |-> [r EXCEPT !.d = 0],
     items |-> net.crafted.v.items + (IF r.ok THEN 1 ELSE 0),
     clean |-> net.crafted.v.clean /\ r.ok]

InitDec ==
    /\ orc = <<>>
    /\ ini = IniInit
    /\ res = ResInit
    /\ ret = Returned("", "", "")
    /\ \E bytes \in Buffers(MaxBufLen) :
          net = [NetInit(1, {}, FALSE) EXCEPT
                    !.crafted = Some([decoder |-> CBORDecoder_new(bytes), position |-> 0,
                                      result |-> DOk(0, 0), items |-> 0,
                                      clean |-> TRUE])]

DecReturned(op, d, r) ==
    /\ net' = [net EXCEPT !.crafted = Some(Decoding(d, r))]
    /\ ret' = Returned("", op, IF r.ok THEN ""
                               ELSE IF "panic" \in DOMAIN r THEN "panic"
                               ELSE "DecodingError")
    /\ UNCHANGED <<orc, ini, res>>

DecU8 ==
    \E d \in {net.crafted.v.decoder} : DecReturned("u8", d, CBORDecoder_u8(d))

DecI8 ==
    \E d \in {net.crafted.v.decoder}, overflow_checks \in BOOLEAN :
        DecReturned("i8", d, CBORDecoder_i8(d, overflow_checks))

DecIntRaw ==
    \E d \in {net.crafted.v.decoder} : DecReturned("int_raw", d, int_raw(d))

DecStr ==
    \E d \in {net.crafted.v.decoder} : DecReturned("str", d, CBORDecoder_str(d))

DecBytes ==
    \E d \in {net.crafted.v.decoder} : DecReturned("bytes", d, CBORDecoder_bytes(d))

DecBytesSized ==
    \E d \in {net.crafted.v.decoder}, expected_size \in 1..2 :
        DecReturned("bytes_sized", d, bytes_sized(d, expected_size))

DecArray ==
    \E d \in {net.crafted.v.decoder} : DecReturned("array", d, CBORDecoder_array(d))

NextDec == DecU8 \/ DecI8 \/ DecIntRaw \/ DecStr \/ DecBytes \/ DecBytesSized \/ DecArray

SpecDec == InitDec /\ [][NextDec]_vars

----------------------------------------------------------------------------
(* One CBORDecoder operation on a new decoder, for every head byte: over   *)
(* the head and a few bytes after it, and over 0x18 and 0x38 followed by   *)
(* any byte.                                                               *)

\* what follows the head: nothing, one byte, a length and fewer bytes than
\* it says, a length and as many bytes
HeadTails == {<<>>, <<1>>, <<2, 1>>, <<1, 1>>}

InitHead ==
    /\ orc = <<>>
    /\ ini = IniInit
    /\ res = ResInit
    /\ ret = Returned("", "", "")
    /\ \/ \E head \in 0..255, tail \in HeadTails :
            net = [NetInit(1, {}, FALSE) EXCEPT
                      !.crafted = Some([decoder |-> CBORDecoder_new(<<head>> \o tail),
                                        position |-> 0, result |-> DOk(0, 0),
                                        items |-> 0, clean |-> TRUE])]
       \/ \E head \in {24, 56}, byte \in 0..255 :
            net = [NetInit(1, {}, FALSE) EXCEPT
                      !.crafted = Some([decoder |-> CBORDecoder_new(<<head, byte>>),
                                        position |-> 0, result |-> DOk(0, 0),
                                        items |-> 0, clean |-> TRUE])]

NextHead == ret.op = "" /\ NextDec

SpecHead == InitHead /\ [][NextHead]_vars

----------------------------------------------------------------------------
(* decode_plaintext_2 and decode_plaintext_3 alone, on crafted plaintexts: *)
(* C_R (plaintext_2 only), ID_CRED, the MAC and an optional EAD, each in   *)
(* well-formed and malformed encodings.                                    *)

\* ID_CRED: byte strings of 0, 1, 2 and 4 bytes with the length in the head
\* byte or after 0x58, bare integers, and heads that are neither
CraftedIdCreds ==
    {<<64>>, <<65, 43>>, <<66, 43, 50>>, <<68, 161, 4, 65, 43>>,
     <<88, 0>>, <<88, 1, 43>>, <<88, 2, 43, 50>>, <<88, 4, 161, 4, 65, 43>>,
     <<43>>, <<10>>, <<0>>, <<55>>, <<24, 43>>, <<56, 10>>,
     <<66, 43>>, <<88>>, <<95>>, <<89, 0, 2, 43, 50>>, <<98, 43, 50>>, <<>>}

CraftedMacs ==
    {<<72, 1, 2, 3, 4, 5, 6, 7, 8>>, <<71, 1, 2, 3, 4, 5, 6, 7>>,
     <<88, 8, 1, 2, 3, 4, 5, 6, 7, 8>>, <<>>}

CraftedPlaintexts ==
    {[c_r |-> c, id_cred |-> i, mac |-> m, ead |-> e] :
        c \in {<<55>>, <<24>>}, i \in CraftedIdCreds, m \in CraftedMacs,
        e \in CraftedEad}

InitPlain ==
    /\ orc = <<>>
    /\ ini = IniInit
    /\ res = ResInit
    /\ ret = Returned("", "", "")
    /\ \E p \in CraftedPlaintexts :
          net = [NetInit(1, {}, FALSE) EXCEPT
                    !.crafted = Some([plain |-> p, result |-> PErr("")])]

PlainReturned(role, op, r) ==
    /\ net' = [net EXCEPT !.crafted = Some([@.v EXCEPT !.result = r])]
    /\ ret' = Returned(role, op, r.err)
    /\ UNCHANGED <<orc, ini, res>>

\* the Initiator decodes plaintext_2
PlainDecode2 ==
    /\ ret.op = ""
    /\ \E p \in {net.crafted.v.plain} :
          PlainReturned("I", "decode_plaintext_2",
              decode_plaintext_2(from_hex(p.c_r \o p.id_cred \o p.mac \o p.ead)))

\* the Responder decodes plaintext_3
PlainDecode3 ==
    /\ ret.op = ""
    /\ \E p \in {net.crafted.v.plain} :
          PlainReturned("R", "decode_plaintext_3",
              decode_plaintext_3(from_hex(p.id_cred \o p.mac \o p.ead)))

NextPlain == PlainDecode2 \/ PlainDecode3

SpecPlain == InitPlain /\ [][NextPlain]_vars

----------------------------------------------------------------------------
(* parse_message_2 alone, on crafted buffers: a head, a content of 0 to 40 *)
(* bytes, fewer content bytes than the head declares, bytes after the      *)
(* string.                                                                 *)

\* the bytes 1, 2, .., n
Counting(n) == [i \in 1..n |-> i]

\* the head of a string of n bytes: "short" (length in the head byte, n
\* below 24), "one" (0x58 n), "two" (0x59 0 n), "indefinite" (0x5F),
\* "text" (0x78 n), "none" (no head)
BstrHead(form, n) ==
    IF form = "short" THEN <<CBOR_MAJOR_BYTE_STRING + (n % 24)>>
    ELSE IF form = "one" THEN <<CBOR_BYTE_STRING, n>>
    ELSE IF form = "two" THEN <<CBOR_BYTE_STRING + 1, 0, n>>
    ELSE IF form = "indefinite" THEN <<CBOR_MAJOR_BYTE_STRING + 31>>
    ELSE IF form = "text" THEN <<CBOR_TEXT_STRING, n>>
    ELSE <<>>

CraftedLengths == {0, 1, 23, 31, 32, 33, 40}

CraftedMessages2 ==
    {BstrHead(form, n) \o SubSeq(Counting(n), 1, n - missing) \o tail :
        form \in {"short", "one", "two", "indefinite", "text", "none"},
        n \in CraftedLengths, missing \in {0, 1}, tail \in {<<>>, <<0>>, <<64>>}}

InitMessage2 ==
    /\ orc = <<>>
    /\ ini = IniInit
    /\ res = ResInit
    /\ ret = Returned("", "", "")
    /\ \E m \in {c \in CraftedMessages2 : Len(c) <= MAX_MESSAGE_SIZE_LEN} :
          net = [NetInit(1, {}, FALSE) EXCEPT
                    !.crafted = Some([message |-> m, result |-> PErr("")])]

ParseMessage2 ==
    /\ ret.op = ""
    /\ \E m \in {net.crafted.v.message} :
          PlainReturned("I", "parse_message_2", parse_message_2(from_hex(m)))

NextMessage2 == ParseMessage2

SpecMessage2 == InitMessage2 /\ [][NextMessage2]_vars

----------------------------------------------------------------------------
(* parse_ead alone and as the tail of parse_message_1, decode_plaintext_2  *)
(* and decode_plaintext_3: every label byte, followed by nothing, by one   *)
(* byte string, or by bytes that are not one byte string.                  *)

EadValues == {<<>>, <<65, 7>>, <<88, 1, 7>>, <<7>>, <<65, 7, 0>>, <<66, 7>>}

CraftedEadBuffers ==
    {<<>>} \cup {<<label>> \o value : label \in 0..255, value \in EadValues}

InitEad ==
    /\ orc = <<>>
    /\ ini = IniInit
    /\ res = ResInit
    /\ ret = Returned("", "", "")
    /\ \E buffer \in CraftedEadBuffers :
          net = [NetInit(1, {}, FALSE) EXCEPT
                    !.crafted = Some([buffer |-> buffer, result |-> PErr("")])]

\* the mandatory fields of a message_1, a plaintext_2 and a plaintext_3
EadMessage1Fields == <<EDHOC_METHOD, 2, CBOR_BYTE_STRING, P256_ELEM_LEN>> \o G_X_TV \o <<14>>
EadPlaintext2Fields == <<55, 43, 72, 1, 2, 3, 4, 5, 6, 7, 8>>
EadPlaintext3Fields == <<43, 72, 1, 2, 3, 4, 5, 6, 7, 8>>

\* what the call returned: an error, or Ok with the EAD item or None
EadReturned(role, op, ok, err, ead) ==
    /\ net' = [net EXCEPT !.crafted =
                  Some([@.v EXCEPT !.result = IF ok THEN [ok |-> TRUE, err |-> "", ead |-> ead]
                                              ELSE PErr(err)])]
    /\ ret' = Returned(role, op, err)
    /\ UNCHANGED <<orc, ini, res>>

EadParse ==
    /\ ret.op = ""
    /\ \E r \in {parse_ead(net.crafted.v.buffer)} :
          EadReturned("", "parse_ead", r.ok, r.err, IF r.ok THEN r.ead ELSE None)

EadMessage1 ==
    /\ ret.op = ""
    /\ \E r \in {parse_message_1(from_hex(EadMessage1Fields \o net.crafted.v.buffer))} :
          EadReturned("R", "parse_message_1", r.ok, r.err, IF r.ok THEN r.ead_1 ELSE None)

EadPlaintext2 ==
    /\ ret.op = ""
    /\ \E r \in {decode_plaintext_2(from_hex(EadPlaintext2Fields \o net.crafted.v.buffer))} :
          EadReturned("I", "decode_plaintext_2", r.ok, r.err, IF r.ok THEN r.ead_2 ELSE None)

EadPlaintext3 ==
    /\ ret.op = ""
    /\ \E r \in {decode_plaintext_3(from_hex(EadPlaintext3Fields \o net.crafted.v.buffer))} :
          EadReturned("R", "decode_plaintext_3", r.ok, r.err, IF r.ok THEN r.ead_3 ELSE None)

NextEad == EadParse \/ EadMessage1 \/ EadPlaintext2 \/ EadPlaintext3

SpecEad == InitEad /\ [][NextEad]_vars

----------------------------------------------------------------------------
(* EdhocMessageBuffer alone: a buffer that starts as new() and takes up to *)
(* MaxCalls calls of push, extend_from_slice, fill_with_slice,             *)
(* new_from_slice and try_into, with slices up to one byte over the        *)
(* capacity.  `accepted` is the bytes that the calls that returned Ok have *)
(* put in the buffer, kept beside it.                                      *)

MaxCalls == 3

\* n bytes of value v
Slice(n, v) == [i \in 1..n |-> v]

CraftedSlices ==
    {<<>>, <<1>>, <<2>>, Slice(96, 1), Slice(96, 2), Slice(MAX_MESSAGE_SIZE_LEN - 1, 1),
     Slice(MAX_MESSAGE_SIZE_LEN, 2), Slice(MAX_MESSAGE_SIZE_LEN + 1, 1)}

InitBuf ==
    /\ orc = <<>>
    /\ ini = IniInit
    /\ res = ResInit
    /\ ret = Returned("", "new", "")
    /\ net = [NetInit(1, {}, FALSE) EXCEPT
                 !.crafted = Some([buffer |-> EdhocMessageBuffer_new, accepted |-> <<>>,
                                   calls |-> 0, would |-> 0])]

\* a call returned r; accepted is what the buffer holds if r is Ok, and
\* would is the length that the result of the call would have
BufReturned(op, r, accepted, would) ==
    /\ net.crafted.v.calls < MaxCalls
    /\ net' = [net EXCEPT !.crafted =
                  Some([buffer |-> r.buf,
                        accepted |-> IF r.ok THEN accepted ELSE net.crafted.v.accepted,
                        calls |-> net.crafted.v.calls + 1,
                        would |-> would])]
    /\ ret' = Returned("", op, r.err)
    /\ UNCHANGED <<orc, ini, res>>

BufPush ==
    \E b \in {net.crafted.v}, item \in {1, 2} :
        BufReturned("push", push(b.buffer, item), Append(b.accepted, item),
                    Len(b.accepted) + 1)

BufExtend ==
    \E b \in {net.crafted.v}, slice \in CraftedSlices :
        BufReturned("extend_from_slice", extend_from_slice(b.buffer, slice),
                    b.accepted \o slice, Len(b.accepted) + Len(slice))

BufFill ==
    \E b \in {net.crafted.v}, slice \in CraftedSlices :
        BufReturned("fill_with_slice", fill_with_slice(b.buffer, slice), slice, Len(slice))

\* let buffer = EdhocMessageBuffer::new_from_slice(slice)?: the caller keeps
\* the buffer it had when the call returns Err
BufNewFromSlice ==
    \E b \in {net.crafted.v}, slice \in CraftedSlices :
    \E r \in {new_from_slice(slice)} :
        BufReturned("new_from_slice", IF r.ok THEN r ELSE [r EXCEPT !.buf = b.buffer],
                    slice, Len(slice))

BufTryInto ==
    \E b \in {net.crafted.v}, slice \in CraftedSlices :
    \E r \in {try_into(slice)} :
        BufReturned("try_into", IF r.ok THEN r ELSE [r EXCEPT !.buf = b.buffer],
                    slice, Len(slice))

NextBuf == BufPush \/ BufExtend \/ BufFill \/ BufNewFromSlice \/ BufTryInto

SpecBuf == InitBuf /\ [][NextBuf]_vars

----------------------------------------------------------------------------
(* helpers::encode_info alone: a label of type u8, a context of 0 to       *)
(* MAX_KDF_CONTEXT_LEN bytes in a BytesMaxContextBuffer, and a length up   *)
(* to MAX_BUFFER_LEN; then the info read back with u8(), bytes(), u8().    *)

InfoContextLens == {0, 1, 23, 24, MAX_KDF_CONTEXT_LEN}

InfoLengths == {0, 1, 23, 24, 32, MAX_BUFFER_LEN - 1, MAX_BUFFER_LEN}

\* a BytesMaxContextBuffer whose first context_len bytes are 1, 2, ..
InfoContext(context_len) ==
    [i \in 1..MAX_KDF_CONTEXT_LEN |-> IF i <= context_len THEN i ELSE 0]

InitInfo ==
    /\ orc = <<>>
    /\ ini = IniInit
    /\ res = ResInit
    /\ ret = Returned("", "", "")
    /\ \E label \in 0..255, context_len \in InfoContextLens, length \in InfoLengths :
          net = [NetInit(1, {}, FALSE) EXCEPT
                    !.crafted = Some([label |-> label, context_len |-> context_len,
                                      length |-> length, info |-> <<>>, info_len |-> 0,
                                      decoded |-> [ok |-> FALSE]])]

InfoEncode ==
    /\ ret.op = ""
    /\ \E a \in {net.crafted.v} :
       \E e \in {encode_info(a.label, InfoContext(a.context_len), a.context_len, a.length)} :
          net' = [net EXCEPT !.crafted = Some([a EXCEPT !.info = e.info,
                                                        !.info_len = e.info_len])]
    /\ ret' = Returned("", "encode_info", "")
    /\ UNCHANGED <<orc, ini, res>>

\* u8(), bytes(), u8() over the first info_len bytes of info
InfoRead(info, info_len) ==
    The({ IF ~l.ok THEN [ok |-> FALSE] ELSE
    The({ IF ~c.ok THEN [ok |-> FALSE] ELSE
    The({ IF ~n.ok THEN [ok |-> FALSE] ELSE
          [ok |-> TRUE, label |-> l.val, context |-> c.val, length |-> n.val,
           finished |-> finished(n.d)]
        : n \in {CBORDecoder_u8(c.d)} })
        : c \in {CBORDecoder_bytes(l.d)} })
        : l \in {CBORDecoder_u8(CBORDecoder_new(SubSeq(info, 1, info_len)))} })

InfoDecode ==
    /\ ret.op = "encode_info"
    /\ \E a \in {net.crafted.v} :
       \E r \in {InfoRead(a.info, a.info_len)} :
          /\ net' = [net EXCEPT !.crafted = Some([a EXCEPT !.decoded = r])]
          /\ ret' = Returned("", "decode", IF r.ok THEN "" ELSE "DecodingError")
    /\ UNCHANGED <<orc, ini, res>>

NextInfo == InfoEncode \/ InfoDecode

SpecInfo == InitInfo /\ [][NextInfo]_vars

----------------------------------------------------------------------------
(* generate_connection_identifier with no bound on the bytes it draws: the *)
(* loop of the call, and a random source that is fair to the bytes that    *)
(* end it.  first is the first byte of 0x00..=0x17 or 0xE8..=0xFF that the *)
(* source delivered, retried says that a byte was rejected before it, and  *)
(* extra that a byte was drawn after it.                                   *)

LoopInit ==
    [started |-> FALSE, conn_id |-> 0, returned |-> FALSE, first |-> None,
     retried |-> FALSE, extra |-> FALSE]

InitLoop ==
    /\ orc = <<>>
    /\ ini = IniInit
    /\ res = ResInit
    /\ net = [NetInit(1, {}, FALSE) EXCEPT !.crafted = Some(LoopInit)]
    /\ ret = Returned("", "", "")

\* a byte that is a single-byte CBOR int when read as i8
EndsLoop(byte) == byte \in (0..23) \cup (232..255)

\* conn_id = crypto.get_random_byte() as i8, the source delivering byte
LoopDraw(byte) ==
    /\ ~net.crafted.v.returned
    /\ ~net.crafted.v.started \/ conn_id_rejected(net.crafted.v.conn_id)
    /\ net' = [net EXCEPT
                  !.crafted.v.started = TRUE,
                  !.crafted.v.conn_id = AsI8(byte),
                  !.crafted.v.retried = @ \/ (net.crafted.v.started /\ EndsLoop(byte)),
                  !.crafted.v.extra = @ \/ net.crafted.v.first # None,
                  !.crafted.v.first = IF @ = None /\ EndsLoop(byte) THEN Some(byte) ELSE @]
    /\ ret' = Returned("", "get_random_byte", "")
    /\ UNCHANGED <<orc, ini, res>>

LoopGetRandomByte == \E byte \in 0..255 : LoopDraw(byte)

\* the loop ends: the call returns conn_id
LoopReturn ==
    /\ ~net.crafted.v.returned
    /\ net.crafted.v.started
    /\ ~conn_id_rejected(net.crafted.v.conn_id)
    /\ net' = [net EXCEPT !.crafted.v.returned = TRUE]
    /\ ret' = Returned("", "generate_connection_identifier", "")
    /\ UNCHANGED <<orc, ini, res>>

NextLoop == LoopGetRandomByte \/ LoopReturn

\* the source eventually delivers a byte that ends the loop, if it is asked
\* for bytes for ever
FairSource == WF_vars(\E byte \in 0..255 : EndsLoop(byte) /\ LoopDraw(byte))

SpecFairLoop == InitLoop /\ [][NextLoop]_vars /\ FairSource /\ WF_vars(LoopReturn)

----------------------------------------------------------------------------
(* The Initiator's Done object after an honest handshake, with up to       *)
(* MaxExports calls of edhoc_exporter and edhoc_key_update on it in any    *)
(* order.  net.crafted keeps the calls: the arguments, the state before    *)
(* and after, and what the call returned.                                  *)

MaxExports == 3

ExportCalls == IF net.crafted.some THEN net.crafted.v ELSE <<>>

ExportsReady ==
    /\ ini.obj.type = "EdhocInitiatorDone"
    /\ res.obj.type = "EdhocResponderDone"
    /\ Len(ExportCalls) < MaxExports

ExpExporter ==
    /\ ExportsReady
    /\ \E a \in {e \in ExporterInputs : Len(e.context) <= MAX_KDF_CONTEXT_LEN} :
         \E r \in {EdhocInitiatorDone_edhoc_exporter(orc, ini.obj, a.label, a.context,
                                                     a.length)} :
         /\ orc' = r.o
         /\ net' = [net EXCEPT !.crafted =
                       Some(Append(ExportCalls,
                                   [op |-> "edhoc_exporter", label |-> a.label,
                                    context |-> a.context, length |-> a.length,
                                    before |-> ini.obj.state, after |-> ini.obj.state,
                                    out |-> SubSeq(r.out, 1, a.length)]))]
         /\ ret' = Returned("I", "edhoc_exporter", r.err)
    /\ UNCHANGED <<ini, res>>

ExpKeyUpdate ==
    /\ ExportsReady
    /\ \E context \in {c \in KeyUpdateContexts : Len(c) <= MAX_KDF_CONTEXT_LEN} :
         \E r \in {EdhocInitiatorDone_edhoc_key_update(orc, ini.obj, context)} :
         /\ orc' = r.o
         /\ ini' = [ini EXCEPT !.obj = r.self, !.prk_out = Some(r.prk_out)]
         /\ net' = [net EXCEPT !.crafted =
                       Some(Append(ExportCalls,
                                   [op |-> "edhoc_key_update",
                                    label |-> KDF_LABEL_KEY_UPDATE,
                                    context |-> context, length |-> SHA256_DIGEST_LEN,
                                    before |-> ini.obj.state, after |-> r.self.state,
                                    out |-> r.prk_out]))]
         /\ ret' = Returned("I", "edhoc_key_update", r.err)
    /\ UNCHANGED res

NextExp == HonestStep \/ ExpExporter \/ ExpKeyUpdate

SpecExp == Init /\ [][NextExp]_vars

----------------------------------------------------------------------------
(* The EAD tail of full messages (SpecTail): a message_1, a plaintext_2    *)
(* or a plaintext_3 of its mandatory fields, an EAD label and a value      *)
(* that fills the buffer up to its capacity.                               *)

TailFills == {0, 1, 2, 100, MAX_MESSAGE_SIZE_LEN}

\* the fields, the label and as many value bytes as still fit the buffer
TailMessage(fields, label, fill) ==
    SubSeq(fields \o <<label>> \o Counting(fill), 1,
           IF Len(fields) + 1 + fill < MAX_MESSAGE_SIZE_LEN
           THEN Len(fields) + 1 + fill ELSE MAX_MESSAGE_SIZE_LEN)

InitTail ==
    /\ orc = <<>>
    /\ ini = IniInit
    /\ res = ResInit
    /\ ret = Returned("", "", "")
    /\ \E label \in 0..255, fill \in TailFills :
          net = [NetInit(1, {}, FALSE) EXCEPT
                    !.crafted = Some([label |-> label, fill |-> fill,
                                      message |-> EdhocMessageBuffer_new, offset |-> 0,
                                      result |-> PErr("")])]

\* what the call on the message returned, and where the EAD label stood
TailReturned(role, op, message, offset, ok, err, ead) ==
    /\ net' = [net EXCEPT !.crafted =
                  Some([@.v EXCEPT !.message = message, !.offset = offset,
                                   !.result = IF ok THEN [ok |-> TRUE, err |-> "", ead |-> ead]
                                              ELSE PErr(err)])]
    /\ ret' = Returned(role, op, err)
    /\ UNCHANGED <<orc, ini, res>>

TailMessage1 ==
    /\ ret.op = ""
    /\ \E message \in {from_hex(TailMessage(EadMessage1Fields, net.crafted.v.label,
                                            net.crafted.v.fill))} :
       \E r \in {parse_message_1(message)} :
          TailReturned("R", "parse_message_1", message, Len(EadMessage1Fields) + 1,
                       r.ok, r.err, IF r.ok THEN r.ead_1 ELSE None)

TailPlaintext2 ==
    /\ ret.op = ""
    /\ \E message \in {from_hex(TailMessage(EadPlaintext2Fields, net.crafted.v.label,
                                            net.crafted.v.fill))} :
       \E r \in {decode_plaintext_2(message)} :
          TailReturned("I", "decode_plaintext_2", message, Len(EadPlaintext2Fields) + 1,
                       r.ok, r.err, IF r.ok THEN r.ead_2 ELSE None)

TailPlaintext3 ==
    /\ ret.op = ""
    /\ \E message \in {from_hex(TailMessage(EadPlaintext3Fields, net.crafted.v.label,
                                            net.crafted.v.fill))} :
       \E r \in {decode_plaintext_3(message)} :
          TailReturned("R", "decode_plaintext_3", message, Len(EadPlaintext3Fields) + 1,
                       r.ok, r.err, IF r.ok THEN r.ead_3 ELSE None)

NextTail == TailMessage1 \/ TailPlaintext2 \/ TailPlaintext3

SpecTail == InitTail /\ [][NextTail]_vars

----------------------------------------------------------------------------
(* Properties of the handshake (Spec).                                     *)

InitiatorOrder ==
    <<"new", "prepare_message_1", "parse_message_2", "verify_message_2",
      "prepare_message_3">>
ResponderOrder ==
    <<"new", "process_message_1", "prepare_message_2", "parse_message_3",
      "verify_message_3">>

IsPrefix(s, t) == Len(s) <= Len(t) /\ s = SubSeq(t, 1, Len(s))

\* every message so far was delivered as sent, and each peer credential was
\* resolved by credential_check_or_fetch against the expected one
HonestHandshake ==
    /\ ~net.flipped
    /\ ini.expected \in {"", "some"}
    /\ res.expected \in {"", "some"}

\* C1: in a handshake whose messages are delivered unmodified and whose peer
\* credentials are resolved against the expected credential, no transition
\* returns an error, and once the Responder is Done the Initiator is Done and
\* verify_message_3 returned the PRK_out that prepare_message_3 returned.
C1_HandshakeAgrees ==
    HonestHandshake =>
        /\ ini.err = "" /\ res.err = ""
        /\ ini.obj.type # "moved" /\ res.obj.type # "moved"
        /\ res.obj.type = "EdhocResponderDone" =>
              /\ ini.obj.type = "EdhocInitiatorDone"
              /\ ini.prk_out.some /\ res.prk_out.some
              /\ ini.prk_out.v = res.prk_out.v

C1_BothDone ==
    /\ HonestHandshake
    /\ ini.expected = "some" /\ res.expected = "some"
    /\ ini.obj.type = "EdhocInitiatorDone"
    /\ res.obj.type = "EdhocResponderDone"
    /\ ini.prk_out = res.prk_out

\* C2: the Initiator is ProcessedM2 (or beyond) only if the MAC_2 recomputed
\* from PRK_3e2m, ID_CRED_R, TH_2 and valid_cred_r equals the MAC_2 of
\* PLAINTEXT_2, and a mismatch makes verify_message_2 return
\* MacVerificationFailed; the Responder is Done and has PRK_out only if the
\* MAC_3 recomputed with cred_i equals the received MAC_3, and a mismatch makes
\* verify_message_3 return MacVerificationFailed.
C2_MacGate ==
    /\ ini.obj.type \in {"EdhocInitiatorProcessedM2", "EdhocInitiatorDone"}
          => ini.mac = "match"
    /\ ini.mac = "mismatch"
          => ini.obj.type = "moved" /\ ini.err = "MacVerificationFailed"
    /\ (res.obj.type = "EdhocResponderDone" \/ res.prk_out.some) => res.mac = "match"
    /\ res.mac = "mismatch"
          => res.obj.type = "moved" /\ res.err = "MacVerificationFailed"

C2_BothMismatched ==
    /\ net.session = 2
    /\ res.mac = "mismatch" /\ ret = Returned("R", "verify_message_3", "MacVerificationFailed")
    /\ ini.mac = "match"

\* C3: after a message_2 with one bit inverted was delivered, the Initiator's
\* parse_message_2, credential_check_or_fetch (against the expected
\* credential) and verify_message_2 return no error other than
\* MacVerificationFailed and ParsingError, and the Initiator is never
\* ProcessedM2.
C3_FlippedMessage2Rejected ==
    (ini.got = "flipped" /\ ini.expected \in {"", "some"}) =>
        /\ ini.err \in {"", "MacVerificationFailed", "ParsingError"}
        /\ ini.obj.type \notin {"EdhocInitiatorProcessedM2", "EdhocInitiatorDone"}

\* C4: after a message_3 with one bit inverted was delivered, parse_message_3
\* has returned MacVerificationFailed or ParsingError, the Responder object is
\* gone, and no PRK_out was released.
C4_FlippedMessage3Rejected ==
    res.got = "flipped" =>
        /\ res.err \in {"MacVerificationFailed", "ParsingError"}
        /\ res.obj.type = "moved"
        /\ ~res.prk_out.some

C4_FlippedMessage3Seen ==
    /\ res.got = "flipped"
    /\ ret = Returned("R", "parse_message_3", "MacVerificationFailed")

\* C5: the transitions performed on a role object are a prefix of the
\* typestate order, each at most once, and prepare_message_3 only after a
\* verify_message_2 that found the MACs equal.
C5_TypestateOrder ==
    /\ IsPrefix(ini.trace, InitiatorOrder)
    /\ IsPrefix(res.trace, ResponderOrder)
    /\ Len(ini.trace) = Len(InitiatorOrder) => ini.mac = "match"

C5_AllTransitionsDone ==
    /\ ini.trace = InitiatorOrder
    /\ res.trace = ResponderOrder

Transitions ==
    {InitiatorOrder[k] : k \in 2..Len(InitiatorOrder)}
    \cup {ResponderOrder[k] : k \in 2..Len(ResponderOrder)}

\* C6: when a transition returns an error its role object is gone; an object
\* that is gone stays gone, whatever is called next, until the handshake is
\* started again; and the object that then replaces it has an ephemeral key
\* of no earlier object.
C6_ErrorConsumes ==
    [][/\ (ret'.role = "I" /\ ret'.op \in Transitions /\ ret'.err # "")
            => ini'.obj.type = "moved"
       /\ (ret'.role = "R" /\ ret'.op \in Transitions /\ ret'.err # "")
            => res'.obj.type = "moved"
       /\ ini.obj.type = "moved"
            => \/ ini' = ini
               \/ ini' = IniInit /\ net'.session = net.session + 1
       /\ res.obj.type = "moved"
            => \/ res' = res
               \/ res' = ResInit /\ net'.session = net.session + 1
       /\ (ini.obj.type = "none" /\ ini'.obj.type # "none")
            => ini'.key.v \notin net.old /\ ini'.key.v = ini'.obj.state.g_x
       /\ (res.obj.type = "none" /\ res'.obj.type # "none")
            => res'.key.v \notin net.old \cup {ini.key.v}
               /\ res'.key.v = res'.obj.state.g_y]_vars

\* after a handshake that ended with an error, both roles have new objects
C6_NewObjectAfterError ==
    /\ net.session = 2
    /\ net.failed
    /\ ini.obj.type = "EdhocInitiator"
    /\ res.obj.type = "EdhocResponder"
    /\ {ini.key.v, res.key.v} \cap net.old = {}

\* C10: when both Done objects were asked for an exporter output with the
\* same label, context and length, they returned the same.
C10_ExportersAgree ==
    (/\ ini.exported.some /\ res.exported.some
     /\ ini.exported.v.args = res.exported.v.args)
        => /\ ini.exported.v.err = res.exported.v.err
           /\ ini.exported.v.out = res.exported.v.out

C10_BothExported ==
    /\ ini.exported.some /\ res.exported.some
    /\ ini.exported.v.args = [label |-> 0, context |-> <<>>, length |-> 16]
    /\ res.exported.v.args = ini.exported.v.args
    /\ ini.exported.v.err = ""
    /\ ~IsU8(ini.exported.v.out[16]) /\ ini.exported.v.out[17] = 0


----------------------------------------------------------------------------
(* Properties of process_message_1 (SpecM1).                               *)

SingleByteInts ==
    (CBOR_UINT_1BYTE_START .. CBOR_UINT_1BYTE_END)
    \cup (CBOR_NEG_INT_1BYTE_START .. CBOR_NEG_INT_1BYTE_END)

\* suites_i as the format has it: one suite as a bare int, or an array of
\* two suites or more, as many as BytesSuites holds; a suite is a u8
SuitesWellFormed(c) ==
    /\ \/ c.form = "int" /\ Len(c.suites) = 1
       \/ c.form \in {"array", "array24"} /\ Len(c.suites) \in 2 .. SUITES_LEN
    /\ \A k \in 1 .. Len(c.suites) : c.suites[k] \in 0 .. 255

\* everything of a message_1 but its method: suites_i, a G_X of 32 bytes,
\* a C_I of one byte and either no EAD or a non-critical EAD item
Framed(c) ==
    /\ c.method \in 0 .. 255
    /\ SuitesWellFormed(c)
    /\ Len(c.g_x) = P256_ELEM_LEN
    /\ c.c_i \in SingleByteInts
    /\ c.ead = <<>> \/ c.ead[1] \in CBOR_UINT_1BYTE_START .. CBOR_UINT_1BYTE_END

WellFormed(c) == Framed(c) /\ c.method = EDHOC_METHOD

\* the suite the Initiator selected
Selected(c) == c.suites[Len(c.suites)]

\* process_message_1 has returned for the crafted message_1
Processed == ret.op = "process_message_1" /\ net.crafted.some

C8_UnsupportedMethodRejected ==
    Processed =>
    \A p \in {parse_message_1(net.message_1.v)} :
       /\ (p.ok /\ p.method # EDHOC_METHOD)
          => (ret.err = "UnsupportedMethod" /\ res.obj = Moved)
       /\ Framed(net.crafted.v) => (p.ok /\ p.method = net.crafted.v.method)

\* method 200, in two bytes, has been parsed and then rejected
C8_Method200Rejected ==
    /\ Processed /\ Framed(net.crafted.v)
    /\ net.crafted.v.method = 200
    /\ parse_message_1(net.message_1.v).method = 200
    /\ ret.err = "UnsupportedMethod"

----------------------------------------------------------------------------
(* Properties of the Done objects (SpecKU).                                *)

Contexts(updates) == [k \in 1..Len(updates) |-> updates[k].context]

\* the call u of edhoc_key_update did what section 4.5 says
Reseeded(u) ==
    /\ u.prk_out = Kdf(orc, u.before.prk_exporter, KDF_LABEL_KEY_UPDATE, u.context,
                       SHA256_DIGEST_LEN).v
    /\ u.after.prk_out = u.prk_out
    /\ u.after.prk_exporter = Kdf(orc, u.prk_out, KDF_LABEL_PRK_EXPORTER, <<>>,
                                  SHA256_DIGEST_LEN).v
    /\ u.after.prk_out # u.before.prk_out
    /\ u.after.prk_exporter # u.before.prk_exporter

\* C11: when the two Done objects of a completed handshake were given the
\* same contexts for edhoc_key_update in the same order, each update
\* returned the same PRK_out on both sides, the two states are equal and an
\* edhoc_exporter call with the same arguments returns the same on both
\* sides; and every update replaced PRK_out by edhoc_kdf(PRK_exporter, 11,
\* context, 32) and PRK_exporter by the one derived from the new PRK_out.
C11_KeyUpdatesAgree ==
    /\ (/\ Contexts(ini.updates) = Contexts(res.updates)
        /\ ini.obj.type = "EdhocInitiatorDone"
        /\ res.obj.type = "EdhocResponderDone")
       => /\ \A k \in 1..Len(ini.updates) :
                ini.updates[k].prk_out = res.updates[k].prk_out
          /\ ini.obj.state = res.obj.state
          /\ ini.prk_out = res.prk_out
          /\ (/\ ini.exported.some /\ res.exported.some
              /\ ini.exported.v.args = res.exported.v.args)
             => ini.exported.v.out = res.exported.v.out
    /\ \A k \in 1..Len(ini.updates) : ini.updates[k].ok => Reseeded(ini.updates[k])
    /\ \A k \in 1..Len(res.updates) : res.updates[k].ok => Reseeded(res.updates[k])

\* both sides were updated twice, with two different contexts, and then
\* asked for the same exporter output
C11_UpdatedTwiceAndExported ==
    /\ Len(ini.updates) = 2
    /\ Contexts(ini.updates) = Contexts(res.updates)
    /\ ini.updates[1].context # <<>> /\ ini.updates[2].context = <<>>
    /\ ini.obj.type = "EdhocInitiatorDone" /\ res.obj.type = "EdhocResponderDone"
    /\ ini.updates[2].prk_out # ini.updates[1].prk_out
    /\ ini.exported.some /\ res.exported.some
    /\ ini.exported.v.args = [label |-> 0, context |-> <<>>, length |-> 16]
    /\ res.exported.v.args = ini.exported.v.args
    /\ res.exported.v.err = ""

----------------------------------------------------------------------------
(* Properties of credential_check_or_fetch (SpecCred).                     *)

Checked == ret.op = "credential_check_or_fetch"

\* the received ID_CRED matches the expected credential: by kid when it is a
\* compact kid, by value (the whole buffer) when it is a full credential
Matches(id_cred, cred_expected) ==
    IF id_cred.kind = "CompactKid" THEN id_cred.v = cred_expected.kid
    ELSE Buf(id_cred.v) = cred_expected.value

C13_CredentialOrUnknownPeer ==
    Checked => \/ ret.err = "" /\ ini.valid_cred_r.some
               \/ ret.err = "UnknownPeer"


----------------------------------------------------------------------------
(* Trust on first use in the handshake (Spec).                             *)

\* the Responder sent its credential by value and the Initiator called
\* parse_message_2 with message_2 as sent
ByValueParsed ==
    /\ res.cred_transfer = "ByValue"
    /\ ~net.flipped
    /\ \E k \in DOMAIN ini.trace : ini.trace[k] = "parse_message_2"

\* and the Initiator resolved ID_CRED_R with no expected credential, while
\* the Responder resolves ID_CRED_I against the credential it expects
ByValueFirstUse ==
    /\ ByValueParsed
    /\ ini.expected = "none"
    /\ res.expected \in {"", "some"}

\* C14: when the Responder sends its credential by value and the Initiator
\* has no expected credential, parse_message_2 yields the Responder's full
\* credential, credential_check_or_fetch(None, received) returns it
\* unchanged, no transition returns an error, and once the Responder is Done
\* both sides hold the same PRK_out.
C14_FirstUseByValue ==
    /\ ByValueParsed =>
        /\ ini.id_cred_r.some
        /\ ~reference_only(ini.id_cred_r.v)
        /\ ini.id_cred_r.v = Parties(net.session).cred_r
    /\ ByValueFirstUse =>
        /\ ini.valid_cred_r = ini.id_cred_r
        /\ ini.err = "" /\ res.err = ""
        /\ ini.obj.type # "moved" /\ res.obj.type # "moved"
        /\ res.obj.type = "EdhocResponderDone" =>
              /\ ini.obj.type = "EdhocInitiatorDone"
              /\ ini.prk_out.some
              /\ ini.prk_out = res.prk_out

C14_FirstUseBothDone ==
    /\ ByValueFirstUse
    /\ ini.obj.type = "EdhocInitiatorDone"
    /\ res.obj.type = "EdhocResponderDone"
    /\ res.expected = "some"
    /\ ini.prk_out = res.prk_out


----------------------------------------------------------------------------
(* The ephemeral private keys in the states of the handshake (Spec).       *)

\* the state of each object is the struct of its type
StateStructs ==
    /\ ini.obj.type = "EdhocInitiatorProcessedM2" => DOMAIN ini.obj.state = ProcessedM2
    /\ ini.obj.type = "EdhocInitiatorDone" => DOMAIN ini.obj.state = Completed
    /\ res.obj.type = "EdhocResponderWaitM3" => DOMAIN res.obj.state = WaitM3
    /\ res.obj.type = "EdhocResponderProcessingM3" => DOMAIN res.obj.state = ProcessingM3
    /\ res.obj.type = "EdhocResponderDone" => DOMAIN res.obj.state = Completed

\* C15: the ephemeral private keys are dropped once PRK_3e2m is derived: no
\* Initiator state after verify_message_2 holds x, and no Responder state
\* after prepare_message_2 (WaitM3, ProcessingM3, Done) holds y.
C15_EphemeralKeysDropped ==
    /\ ini.obj.type \in {"EdhocInitiatorProcessedM2", "EdhocInitiatorDone"}
          => "x" \notin DOMAIN ini.obj.state
    /\ res.obj.type \in {"EdhocResponderWaitM3", "EdhocResponderProcessingM3",
                         "EdhocResponderDone"}
          => "y" \notin DOMAIN res.obj.state

\* C15 (as the code has it): no Initiator state after verify_message_2 holds
\* x and the Responder's Done state does not hold y, while WaitM3 and
\* ProcessingM3 hold the y of the Responder's ephemeral key pair, which
\* verify_message_3 takes for PRK_4e3m.
C15_EphemeralKeysUntilLastUse ==
    /\ StateStructs
    /\ ini.obj.type \in {"EdhocInitiatorProcessedM2", "EdhocInitiatorDone"}
          => "x" \notin DOMAIN ini.obj.state
    /\ res.obj.type = "EdhocResponderDone" => "y" \notin DOMAIN res.obj.state
    /\ res.obj.type \in {"EdhocResponderWaitM3", "EdhocResponderProcessingM3"}
          => /\ "y" \in DOMAIN res.obj.state
             /\ PrivateKeyId(orc, res.obj.state.y) # 0
             /\ PrivateKeyId(orc, res.obj.state.y) = PublicKeyId(orc, res.key.v)

C15_ProcessingM3HoldsY ==
    /\ ini.obj.type = "EdhocInitiatorDone"
    /\ "x" \notin DOMAIN ini.obj.state
    /\ res.obj.type = "EdhocResponderProcessingM3"
    /\ "y" \in DOMAIN res.obj.state


----------------------------------------------------------------------------
(* Properties of the handshake with keys of any length (SpecAuth).         *)

\* C16: every public transition of both roles returns its success value or
\* an EDHOCError for every argument value, also for a private authentication
\* key i or r that is not 32 bytes long: it never aborts.
C16_TransitionsNeverAbort ==
    ret.op \in Transitions => ret.err # "panic"


----------------------------------------------------------------------------
(* Contexts longer than MAX_KDF_CONTEXT_LEN (SpecKU).                      *)

\* the context argument of the call that returned last, an edhoc_exporter
\* or an edhoc_key_update
CalledContext ==
    IF ret.op = "edhoc_key_update"
    THEN IF ret.role = "I" THEN ini.updates[Len(ini.updates)].context
         ELSE res.updates[Len(res.updates)].context
    ELSE IF ret.role = "I" THEN ini.exported.v.args.context
         ELSE res.exported.v.args.context

\* C17: edhoc_exporter and edhoc_key_update on a Done state, called with a
\* context longer than 150 bytes, report an error: they neither abort nor
\* go on with a truncated context.
C17_LongContextReported ==
    (/\ ret.op \in {"edhoc_exporter", "edhoc_key_update"}
     /\ Len(CalledContext) > MAX_KDF_CONTEXT_LEN)
        => ret.err \notin {"", "panic"}


----------------------------------------------------------------------------
(* Properties of the connection identifier (SpecConn).                     *)

ConnReturned == net.crafted.v.returned

\* C18: generate_connection_identifier returns a value in [-24, 23] whatever
\* bytes get_random_byte delivers, and generate_connection_identifier_cbor
\* returns one byte in 0x00..=0x17 or 0x20..=0x37.
C18_ConnectionIdentifierRange ==
    ConnReturned =>
        /\ net.crafted.v.conn_id \in -24..23
        /\ net.crafted.v.c \in (0..23) \cup (32..55)

C18_NegativeAfterRejection ==
    /\ ConnReturned
    /\ net.crafted.v.draws = MaxDraws
    /\ net.crafted.v.conn_id = -24
    /\ net.crafted.v.c = 55

\* C19: for every identifier c in [-24, 23] the loop ends with, the byte of
\* generate_connection_identifier_cbor is c for c >= 0 and 0x1F + (-c) for
\* c < 0, CBORDecoder::i8 of that one byte gives c and int_raw gives the byte
\* itself, and the branch that returns 0 for an identifier out of range is
\* never taken.
C19_ConnectionIdentifierRoundTrip ==
    /\ ConnReturned =>
          /\ net.crafted.v.c = IF net.crafted.v.conn_id >= 0 THEN net.crafted.v.conn_id
                               ELSE 31 + (-net.crafted.v.conn_id)
          /\ (net.crafted.v.conn_id >= 0 /\ net.crafted.v.conn_id <= 23)
                \/ (net.crafted.v.conn_id < 0 /\ net.crafted.v.conn_id >= -24)
    /\ (ConnReturned /\ net.crafted.v.decoded) =>
          /\ net.crafted.v.i8.v.ok
          /\ net.crafted.v.i8.v.val = net.crafted.v.conn_id
          /\ net.crafted.v.i8.v.d.pos = 1
          /\ net.crafted.v.int_raw.v.ok
          /\ net.crafted.v.int_raw.v.val = net.crafted.v.c

C19_NegativeDecoded ==
    /\ ConnReturned
    /\ net.crafted.v.decoded
    /\ net.crafted.v.conn_id = -1
    /\ net.crafted.v.c = 32
    /\ net.crafted.v.i8.v.val = -1


----------------------------------------------------------------------------
(* Properties of the decoder (SpecDec).                                    *)

\* C20: a CBORDecoder operation (u8, i8, int_raw, str, bytes, bytes_sized,
\* array) that returns an error leaves the position of the decoder where it
\* was before the call.
C20_ErrorKeepsPosition ==
    ret.err = "DecodingError" =>
        position(net.crafted.v.decoder) = net.crafted.v.position


\* The size of the encoding of the item whose head is the byte at index at
\* of buf (from 0), as RFC 8949 has it for the forms the decoder supports:
\* the head, the length byte of the one-byte-length form, and for a string
\* its payload (an array counts by its head: its elements are items of
\* their own).  0 where no such item lies within buf.
ItemSize(buf, at) ==
    IF at >= Len(buf) THEN 0
    ELSE LET head == buf[at + 1]
             major == head \div 32
             info == head % 32
             long == info = 24 /\ at + 1 < Len(buf)
             size == IF info <= 23
                     THEN (IF major \in {2, 3} THEN 1 + info ELSE 1)
                     ELSE IF long
                     THEN (IF major \in {2, 3} THEN 2 + buf[at + 2] ELSE 2)
                     ELSE 0
         IN  IF major \in {0, 1, 2, 3, 4} /\ size > 0 /\ at + size <= Len(buf)
             THEN size ELSE 0

\* where the k-th item of buf ends, -1 if buf does not begin with k items
RECURSIVE ItemsEnd(_, _)
ItemsEnd(buf, k) ==
    IF k = 0 THEN 0
    ELSE LET at == ItemsEnd(buf, k - 1)
         IN  IF at < 0 \/ ItemSize(buf, at) = 0 THEN -1
             ELSE at + ItemSize(buf, at)

\* C21: a CBORDecoder operation that returns Ok advances the position by the
\* encoded size of the item it decoded (head, length byte of the 0x18, 0x58
\* and 0x78 forms, payload of a string); so after k operations that all
\* returned Ok the position is the end of the k-th item, and when the buffer
\* is k items and nothing more, finished() is true.
C21_OkAdvancesByItem ==
    /\ (ret.op # "" /\ ret.err = "") =>
          /\ ItemSize(net.crafted.v.decoder.buf, net.crafted.v.position) > 0
          /\ position(net.crafted.v.decoder)
                = net.crafted.v.position
                  + ItemSize(net.crafted.v.decoder.buf, net.crafted.v.position)
    /\ net.crafted.v.clean =>
          /\ position(net.crafted.v.decoder)
                = ItemsEnd(net.crafted.v.decoder.buf, net.crafted.v.items)
          /\ ItemsEnd(net.crafted.v.decoder.buf, net.crafted.v.items)
                = Len(net.crafted.v.decoder.buf)
                => finished(net.crafted.v.decoder)

C21_TwoItemsFinished ==
    /\ net.crafted.v.clean
    /\ net.crafted.v.items = 2
    /\ net.crafted.v.decoder.buf = <<1, 24, 37>>
    /\ finished(net.crafted.v.decoder)


----------------------------------------------------------------------------
(* Properties of one decoder operation (SpecHead).                         *)

\* the head byte of the buffer and the additional info in it
HeadByte == net.crafted.v.decoder.buf[1]
HeadInfo == HeadByte % 32

\* the length the head declares (in it, or in the byte after it)
DeclaredLength ==
    IF HeadInfo <= 23 THEN HeadInfo ELSE net.crafted.v.decoder.buf[2]

\* the head declares a length, and the bytes it stands for run past the end
\* of the buffer, or the byte that holds the length is missing
PastTheEnd ==
    \/ HeadInfo <= 23 /\ 1 + HeadInfo > Len(net.crafted.v.decoder.buf)
    \/ /\ HeadInfo = 24
       /\ \/ Len(net.crafted.v.decoder.buf) < 2
          \/ 2 + DeclaredLength > Len(net.crafted.v.decoder.buf)

\* C22: str(), bytes(), bytes_sized() and array() return DecodingError for
\* every head byte with additional info 31 (indefinite length) and with
\* additional info 25..=30; a declared length that runs past the end of the
\* buffer is DecodingError for str(), bytes() and bytes_sized(), and no
\* operation reads out of the buffer.
C22_UnsupportedLengthsRejected ==
    /\ ret.op \in {"str", "bytes", "bytes_sized", "array"} =>
          /\ HeadInfo \in 25..31 => ret.err = "DecodingError"
          /\ ret.err \in {"", "DecodingError"}
          /\ position(net.crafted.v.decoder) <= Len(net.crafted.v.decoder.buf)
    /\ (ret.op \in {"str", "bytes", "bytes_sized"} /\ PastTheEnd)
          => ret.err = "DecodingError"

C22_ShortByteStringRejected ==
    /\ ret.op = "bytes"
    /\ net.crafted.v.decoder.buf = <<88, 2, 1>>
    /\ ret.err = "DecodingError"


\* The integer that the CBOR bytes at the start of buf encode, for the four
\* forms whose value fits in i8; none otherwise (RFC 8949, major types 0, 1)
EncodedI8(buf) ==
    IF Len(buf) >= 1 /\ buf[1] >= 0 /\ buf[1] <= 23 THEN Some(buf[1])
    ELSE IF Len(buf) >= 1 /\ buf[1] >= 32 /\ buf[1] <= 55 THEN Some(-1 - (buf[1] - 32))
    ELSE IF Len(buf) >= 2 /\ buf[1] = 24 /\ buf[2] <= 127 THEN Some(buf[2])
    ELSE IF Len(buf) >= 2 /\ buf[1] = 56 /\ buf[2] <= 127 THEN Some(-1 - buf[2])
    ELSE None

\* C23: i8 called on a new decoder over one of the four forms of an integer
\* that fits in i8 returns without panic the integer that the bytes encode:
\* n for 0x00..=0x17, -1-(h-0x20) for 0x20..=0x37, b for 0x18 b and -1-b for
\* 0x38 b.
C23_I8ReturnsEncodedInteger ==
    (ret.op = "i8" /\ EncodedI8(net.crafted.v.decoder.buf) # None)
        => /\ ret.err = ""
           /\ net.crafted.v.result.val = EncodedI8(net.crafted.v.decoder.buf).v


\* C24: a message_1 whose SUITES_I is a CBOR array of fewer than two
\* elements, the count in the head byte (0x80, 0x81) or in the byte after it
\* (0x98 n), is rejected by parse_message_1 with ParsingError.
C24_ShortSuitesArrayRejected ==
    (/\ ret.op = "process_message_1"
     /\ net.crafted.v.form \in {"array", "array24"}
     /\ Len(net.crafted.v.suites) < 2)
        => parse_message_1(net.message_1.v).err = "ParsingError"


\* the IdCred that the decoder returned, none after an error
PlainIdCred ==
    IF ~net.crafted.v.result.ok THEN None
    ELSE IF ret.op = "decode_plaintext_2" THEN Some(net.crafted.v.result.id_cred_r)
    ELSE Some(net.crafted.v.result.id_cred_i)

\* ID_CRED is a byte string of n bytes, the length in the head byte or after 0x58
BstrOfLength(id_cred, n) ==
    /\ Len(id_cred) >= 1
    /\ \/ id_cred[1] = CBOR_MAJOR_BYTE_STRING + n /\ Len(id_cred) = 1 + n
       \/ /\ id_cred[1] = CBOR_BYTE_STRING
          /\ Len(id_cred) = 2 + n
          /\ id_cred[2] = n

\* C25: decode_plaintext_2 and decode_plaintext_3 return a FullCredential
\* only of two bytes or more; an ID_CRED that is a byte string of 0 or 1
\* bytes, in any head form, is rejected with ParsingError; a bare one-byte
\* integer is returned as CompactKid with the raw byte.
C25_ShortByteStringIdCredRejected ==
    ret.op \in {"decode_plaintext_2", "decode_plaintext_3"}
        => /\ (PlainIdCred # None /\ PlainIdCred.v.kind = "FullCredential")
                => Len(PlainIdCred.v.v) >= 2
           /\ (\E n \in {0, 1} : BstrOfLength(net.crafted.v.plain.id_cred, n))
                => ret.err = "ParsingError"
           /\ (PlainIdCred # None /\ PlainIdCred.v.kind = "CompactKid")
                => net.crafted.v.plain.id_cred = <<PlainIdCred.v.v>>


\* The content of buf when buf is exactly one definite-length CBOR byte
\* string whose length is written in at most `width` bytes after the head
\* (RFC 8949: 0 bytes for info 0..23, 1 for info 24, 2 for info 25); none
\* otherwise.
BstrContent(buf, width) ==
    IF Len(buf) = 0 \/ type_of(buf[1]) # CBOR_MAJOR_BYTE_STRING THEN None
    ELSE IF info_of(buf[1]) <= 23
         THEN IF Len(buf) = 1 + info_of(buf[1])
              THEN Some(SubSeq(buf, 2, Len(buf))) ELSE None
    ELSE IF info_of(buf[1]) = 24 /\ width >= 1
         THEN IF Len(buf) >= 2 /\ Len(buf) = 2 + buf[2]
              THEN Some(SubSeq(buf, 3, Len(buf))) ELSE None
    ELSE IF info_of(buf[1]) = 25 /\ width >= 2
         THEN IF Len(buf) >= 3 /\ Len(buf) = 3 + 256 * buf[2] + buf[3]
              THEN Some(SubSeq(buf, 4, Len(buf))) ELSE None
    ELSE None

\* parse_message_2 succeeded exactly on one byte string, its length written
\* in at most `width` bytes, of P256_ELEM_LEN content bytes or more, and
\* split the content at P256_ELEM_LEN; it returned ParsingError otherwise
Message2Split(width) ==
    ret.op = "parse_message_2"
        => \E c \in {BstrContent(net.crafted.v.message, width)},
              r \in {net.crafted.v.result} :
              IF c # None /\ Len(c.v) >= P256_ELEM_LEN
              THEN /\ r.ok
                   /\ r.g_y = SubSeq(c.v, 1, P256_ELEM_LEN)
                   /\ as_slice(r.ciphertext_2) = SubSeq(c.v, P256_ELEM_LEN + 1, Len(c.v))
                   /\ r.g_y \o as_slice(r.ciphertext_2) = c.v
              ELSE ~r.ok /\ r.err = "ParsingError"

\* C26 as stated: parse_message_2 succeeds exactly when the buffer is one
\* definite-length byte string with no bytes after it and at least 32
\* content bytes, whatever the width of its length.
C26_AnyDefiniteLengthSplit == Message2Split(2)

\* C26: parse_message_2 succeeds exactly when the buffer is one byte string
\* whose length is in the head byte or in the one byte after 0x58, with no
\* bytes after it and at least 32 content bytes; it then returns G_Y = the
\* first 32 content bytes and CIPHERTEXT_2 = the remaining ones, possibly
\* none; every other buffer yields ParsingError.
C26_OneByteLengthSplit == Message2Split(1)

C26_SplitAtOffset32 ==
    /\ ret.op = "parse_message_2"
    /\ net.crafted.v.message = <<88, 33>> \o Counting(33)
    /\ net.crafted.v.result.ok
    /\ net.crafted.v.result.g_y = Counting(32)
    /\ as_slice(net.crafted.v.result.ciphertext_2) = <<33>>


\* parse_ead returned, for the head byte b of a non-empty buffer: label b,
\* not critical, for b in 0x00..=0x17; a critical item whose label is b less
\* `base` for b in 0x20..=0x37; ParsingError for any other b and for an
\* empty buffer
EadLabelMapped(base) ==
    ret.op = "parse_ead"
        => \E buffer \in {net.crafted.v.buffer}, r \in {net.crafted.v.result} :
              IF Len(buffer) = 0 THEN ~r.ok /\ r.err = "ParsingError"
              ELSE IF buffer[1] >= 0 /\ buffer[1] <= 23
                   THEN r.ok /\ r.ead.v.label = buffer[1] /\ ~r.ead.v.is_critical
              ELSE IF buffer[1] >= 32 /\ buffer[1] <= 55
                   THEN r.ok /\ r.ead.v.label = buffer[1] - base /\ r.ead.v.is_critical
              ELSE ~r.ok /\ r.err = "ParsingError"

EadLabelAtMost(last) ==
    (ret.op # "" /\ net.crafted.v.result.ok /\ net.crafted.v.result.ead # None)
        => net.crafted.v.result.ead.v.label \in 0..last

OneEadItem(buffer) ==
    /\ Len(buffer) >= 1
    /\ is_u8(buffer[1]) \/ is_i8(buffer[1])
    /\ \/ Len(buffer) = 1
       \/ BstrContent(SubSeq(buffer, 2, Len(buffer)), 2) # None

\* C29: parse_message_1, decode_plaintext_2 and decode_plaintext_3 accept
\* bytes after the last mandatory field only when they form exactly one EAD
\* item (a one-byte CBOR int label, then nothing or exactly one well-formed
\* byte string); any other bytes there yield ParsingError; the returned ead
\* is None exactly when no byte follows the last mandatory field.
C29_OnlyOneEadItemAccepted ==
    ret.op \in {"parse_message_1", "decode_plaintext_2", "decode_plaintext_3"}
        => \E buffer \in {net.crafted.v.buffer}, r \in {net.crafted.v.result} :
              /\ r.ok <=> (Len(buffer) = 0 \/ OneEadItem(buffer))
              /\ ~r.ok => r.err = "ParsingError"
              /\ r.ok => (r.ead = None <=> Len(buffer) = 0)


\* after any sequence of calls the buffer holds at most its capacity, and
\* as_slice() is exactly the bytes accepted so far; a call returns an error
\* exactly when its result would exceed the capacity, and then leaves the
\* buffer as it was (BufReturned keeps `accepted` on an error)
BufferHoldsAccepted ==
    /\ net.crafted.v.buffer.len <= MAX_MESSAGE_SIZE_LEN
    /\ Len(net.crafted.v.buffer.content) = MAX_MESSAGE_SIZE_LEN
    /\ as_slice(net.crafted.v.buffer) = net.crafted.v.accepted
    /\ ret.err # "" <=> net.crafted.v.would > MAX_MESSAGE_SIZE_LEN

\* the error of a call whose result would exceed the capacity, try_into
\* returning `unit`
OverflowReported(unit) ==
    ret.err # ""
        => ret.err = IF ret.op = "push" THEN "BufferAlreadyFull"
                     ELSE IF ret.op = "try_into" THEN unit
                     ELSE "SliceTooLong"

\* C30 as stated: an operation whose result would exceed 192 bytes returns
\* BufferAlreadyFull (push) or SliceTooLong (extend, fill, new_from_slice,
\* TryInto).
C30_OverflowSliceTooLong == BufferHoldsAccepted /\ OverflowReported("SliceTooLong")

\* C30: starting from new(), after any sequence of push, extend_from_slice,
\* fill_with_slice, new_from_slice and try_into calls, len <= 192 and
\* as_slice() is exactly the bytes accepted so far (push and extend append,
\* the others replace); a call whose result would exceed 192 bytes returns
\* BufferAlreadyFull (push), SliceTooLong (extend, fill, new_from_slice) or
\* Err(()) (try_into) and stores nothing.
C30_OverflowReported == BufferHoldsAccepted /\ OverflowReported("()")

C30_FullBufferRefusesPush ==
    /\ ret.op = "push"
    /\ ret.err = "BufferAlreadyFull"
    /\ net.crafted.v.buffer.len = MAX_MESSAGE_SIZE_LEN
    /\ net.crafted.v.accepted = Slice(96, 1) \o Slice(96, 2)


\* the CBOR sequence label, bstr(context), length with the heads that the
\* text of the KDF gives: 0x40|len below 24 and 0x58 len otherwise, the
\* length raw below 24 and 0x18 length otherwise
InfoSequence(label, context, length) ==
    <<label>>
    \o (IF Len(context) < 24 THEN <<CBOR_MAJOR_BYTE_STRING + Len(context)>>
        ELSE <<CBOR_BYTE_STRING, Len(context)>>)
    \o context
    \o (IF length < 24 THEN <<length>> ELSE <<CBOR_UINT_1BYTE, length>>)

\* C31: for every label in 0..=23, every context of 0..=150 bytes and every
\* length in 0..=255, the info of encode_info is label, bstr(context),
\* length; info_len is its length and at most MAX_INFO_LEN; read back with
\* u8(), bytes(), u8() it gives (label, context, length) and ends finished.
C31_InfoRoundTrip ==
    \E a \in {net.crafted.v} :
       (a.label <= 23 /\ a.length <= 255)
          => /\ ret.op \in {"encode_info", "decode"}
                => /\ SubSeq(a.info, 1, a.info_len)
                        = InfoSequence(a.label, SubSeq(InfoContext(a.context_len), 1, a.context_len),
                                       a.length)
                   /\ a.info_len <= MAX_INFO_LEN
                   /\ a.info_len = Len(a.info)
             /\ ret.op = "decode"
                => /\ a.decoded.ok
                   /\ a.decoded.label = a.label
                   /\ a.decoded.context = SubSeq(InfoContext(a.context_len), 1, a.context_len)
                   /\ a.decoded.length = a.length
                   /\ a.decoded.finished

C31_LongContextReadBack ==
    /\ ret.op = "decode"
    /\ net.crafted.v.label = 23
    /\ net.crafted.v.context_len = MAX_KDF_CONTEXT_LEN
    /\ net.crafted.v.length = 255
    /\ net.crafted.v.info_len = MAX_KDF_CONTEXT_LEN + 5
    /\ net.crafted.v.decoded.ok
    /\ net.crafted.v.decoded.length = 255
    /\ Len(net.crafted.v.decoded.context) = MAX_KDF_CONTEXT_LEN

\* C32: for every length in 0..=256 and every label in 0..=255, the label
\* and length fields that encode_info writes are CBOR unsigned integers
\* that decode to the requested label and length, with no truncation modulo
\* 256 and no label byte that reads as another CBOR head.
C32_LabelAndLengthEncoded ==
    ret.op = "decode"
        => /\ net.crafted.v.decoded.ok
           /\ net.crafted.v.decoded.label = net.crafted.v.label
           /\ net.crafted.v.decoded.length = net.crafted.v.length


\* the call returned only after the source delivered a byte of
\* 0x00..=0x17 or 0xE8..=0xFF, returned the first such byte as i8, and drew
\* no byte after it
FirstByteReturned ==
    /\ net.crafted.v.returned
          => /\ net.crafted.v.first # None
             /\ net.crafted.v.conn_id = AsI8(net.crafted.v.first.v)
    /\ ~net.crafted.v.extra

\* C33: generate_connection_identifier returns only if get_random_byte
\* delivers a byte in 0x00..=0x17 or 0xE8..=0xFF; under a fair source it
\* eventually returns; it returns the first such byte as i8 and draws no
\* byte after it.
C33_FairSourceTerminates ==
    /\ []FirstByteReturned
    /\ <>(net.crafted.v.returned)

C33_ReturnedAfterRejection ==
    /\ net.crafted.v.returned
    /\ net.crafted.v.retried
    /\ net.crafted.v.first = Some(232)
    /\ net.crafted.v.conn_id = -24


\* C34: a push, extend_from_slice or fill_with_slice call that returns an
\* error leaves len and content of the buffer unchanged, so as_slice() is
\* the same before and after the call.
C34_FailedCallKeepsBuffer ==
    [][(ret'.op \in {"push", "extend_from_slice", "fill_with_slice"} /\ ret'.err # "")
          => /\ net'.crafted.v.buffer.len = net.crafted.v.buffer.len
             /\ net'.crafted.v.buffer.content = net.crafted.v.buffer.content
             /\ as_slice(net'.crafted.v.buffer) = as_slice(net.crafted.v.buffer)]_vars

C34_FillRefusedOnHalfFull ==
    /\ ret.op = "fill_with_slice"
    /\ ret.err = "SliceTooLong"
    /\ net.crafted.v.buffer.len = 96
    /\ as_slice(net.crafted.v.buffer) = Slice(96, 2)


\* the entry of the table that the bytes out are the output of
TermOf(out) == orc[SymId(out[1])]

\* what a call derives its output from: PRK_exporter of the state it was
\* called on, and the info of its label, context and length
ExpandOf(c) ==
    <<"expand", c.before.prk_exporter,
      InfoSequence(c.label, c.context, c.length)>>

C36_PositionWithinBuffer ==
    \E d \in {net.crafted.v.decoder}, before \in {net.crafted.v.position} :
       /\ position(d) >= 0
       /\ position(d) <= Len(d.buf)
       /\ position(d) >= before
       /\ finished(d) <=> position(d) = Len(d.buf)
       /\ (ret.op # "" /\ before = Len(d.buf))
             => /\ ret.err = "DecodingError"
                /\ ~net.crafted.v.result.ok
                /\ position(d) = before

C36_CalledWhenFinished ==
    /\ ret.op = "bytes"
    /\ ret.err = "DecodingError"
    /\ net.crafted.v.items = 2
    /\ net.crafted.v.decoder.buf = <<1, 24, 37>>
    /\ net.crafted.v.position = 3
    /\ finished(net.crafted.v.decoder)

----------------------------------------------------------------------------
(* Properties of the EAD tail of full messages (SpecTail).                 *)

\* the bytes of the message that follow the EAD label
TailAfterLabel ==
    SubSeq(as_slice(net.crafted.v.message), net.crafted.v.offset + 1,
           net.crafted.v.message.len)

\* C37: when parse_message_1, decode_plaintext_2 or decode_plaintext_3 is
\* given a buffer of at most 192 bytes, the bytes after the EAD label are
\* fewer than 192, the fill_with_slice(tail).unwrap() of parse_ead does not
\* panic, and the value of the returned EAD item is exactly those bytes
\* (no value when there are none).
C37_EadTailFitsValueBuffer ==
    ret.op # "" =>
       /\ net.crafted.v.message.len <= MAX_MESSAGE_SIZE_LEN
       /\ Len(TailAfterLabel) < MAX_MESSAGE_SIZE_LEN
       /\ ret.err # "panic"
       /\ (net.crafted.v.result.ok /\ net.crafted.v.result.ead.some)
             => \E value \in {net.crafted.v.result.ead.v.value} :
                   /\ value.some <=> Len(TailAfterLabel) > 0
                   /\ value.some => /\ value.v.len = Len(TailAfterLabel)
                                    /\ as_slice(value.v) = TailAfterLabel

\* a plaintext_3 of exactly 192 bytes came back with an EAD value of the
\* 181 bytes after its label
C37_FullPlaintext3Parsed ==
    /\ ret.op = "decode_plaintext_3"
    /\ net.crafted.v.message.len = MAX_MESSAGE_SIZE_LEN
    /\ net.crafted.v.result.ok
    /\ net.crafted.v.result.ead.some
    /\ net.crafted.v.result.ead.v.value.some
    /\ net.crafted.v.result.ead.v.value.v.len = MAX_MESSAGE_SIZE_LEN - Len(EadPlaintext3Fields) - 1
    /\ as_slice(net.crafted.v.result.ead.v.value.v) = TailAfterLabel

============================================================================
